---------------------------- MODULE Spec2Model ----------------------------
(***************************************************************************)
(* Model of the content CMS server (server/src/index.js): the path guard,  *)
(* the file operations of one post (upload, create-folder, rename,         *)
(* remove), the directory tree walk, and the disk they share.              *)
(*                                                                         *)
(* A string is a sequence of characters.  To keep paths readable a run of  *)
(* letters that is never split is written as one character ("foo",         *)
(* "bar"), so that "foobar" is <<"foo", "bar">> and has "foo" as a string  *)
(* prefix, exactly as String.prototype.startsWith sees it.                 *)
(***************************************************************************)
EXTENDS Integers, Sequences, FiniteSets, TLC

VARIABLES
    disk,   \* the file system: absolute path -> entry
    req,    \* the request being answered (NoReq between requests)
    res,    \* the response to it: status and error message
    pend,   \* concurrent requests in flight (SpecRace): slot -> handler position
    walk,   \* the directory tree request in flight (SpecTree)
    out,    \* what the response carries besides its status: the tree, and how
            \* often the handler started the post script
    log,    \* the requests answered before this one, with their status
    editor  \* the post editor page in the browser (SpecEditor)

vars == <<disk, req, res, pend, walk, out, log, editor>>

-----------------------------------------------------------------------------
(* Strings and the path module (node:path, posix)                          *)

SEP == "/"
DOT == <<".">>
DOTDOT == <<".", ".">>

startsWith(s, prefix) ==
    /\ Len(s) >= Len(prefix)
    /\ SubSeq(s, 1, Len(prefix)) = prefix

\* String.prototype.includes for a substring
includes(s, sub) ==
    \E i \in 1..(Len(s) - Len(sub) + 1) : SubSeq(s, i, i + Len(sub) - 1) = sub

RECURSIVE splitAcc(_, _, _)
splitAcc(s, i, cur) ==
    IF i > Len(s) THEN <<cur>>
    ELSE IF s[i] = SEP THEN <<cur>> \o splitAcc(s, i + 1, <<>>)
    ELSE splitAcc(s, i + 1, Append(cur, s[i]))

\* s.split(path.sep)
split(s) == splitAcc(s, 1, <<>>)

RECURSIVE joinSegs(_)
joinSegs(segs) ==
    IF Len(segs) = 0 THEN <<>>
    ELSE IF Len(segs) = 1 THEN segs[1]
    ELSE segs[1] \o <<SEP>> \o joinSegs(Tail(segs))

\* normalizeString of node:path: drops empty and "." segments, lets ".."
\* remove the segment before it, and keeps a leading ".." only for a
\* relative path.
RECURSIVE normalizeSegs(_, _, _, _)
normalizeSegs(segs, i, acc, allowAboveRoot) ==
    IF i > Len(segs) THEN acc
    ELSE LET seg == segs[i] IN
         IF seg = <<>> \/ seg = DOT
           THEN normalizeSegs(segs, i + 1, acc, allowAboveRoot)
         ELSE IF seg = DOTDOT
           THEN IF Len(acc) > 0 /\ acc[Len(acc)] # DOTDOT
                  THEN normalizeSegs(segs, i + 1, SubSeq(acc, 1, Len(acc) - 1), allowAboveRoot)
                ELSE IF allowAboveRoot
                  THEN normalizeSegs(segs, i + 1, Append(acc, seg), allowAboveRoot)
                ELSE normalizeSegs(segs, i + 1, acc, allowAboveRoot)
         ELSE normalizeSegs(segs, i + 1, Append(acc, seg), allowAboveRoot)

\* path.normalize
normalize(path) ==
    IF Len(path) = 0 THEN DOT
    ELSE LET isAbsolute == path[1] = SEP
             trailingSeparator == path[Len(path)] = SEP
             p == joinSegs(normalizeSegs(split(path), 1, <<>>, ~isAbsolute))
         IN IF Len(p) = 0
              THEN IF isAbsolute THEN <<SEP>>
                   ELSE IF trailingSeparator THEN <<".", SEP>> ELSE DOT
            ELSE (IF isAbsolute THEN <<SEP>> ELSE <<>>) \o p
                 \o (IF trailingSeparator THEN <<SEP>> ELSE <<>>)

\* path.join of two arguments
join(a, b) ==
    LET joined == IF Len(a) = 0 THEN b
                  ELSE IF Len(b) = 0 THEN a
                  ELSE a \o <<SEP>> \o b
    IN IF Len(joined) = 0 THEN DOT ELSE normalize(joined)

\* path.dirname of a normalized absolute path
dirname(p) ==
    LET segs == split(p)
        up == joinSegs(SubSeq(segs, 1, Len(segs) - 1))
    IN IF Len(up) = 0 THEN <<SEP>> ELSE up

\* path.basename
basename(p) == LET segs == split(p) IN segs[Len(segs)]

CONTENT_ROOT == <<SEP, "content">>
POSTS_DIR == join(CONTENT_ROOT, <<"posts">>)


-----------------------------------------------------------------------------
(* The disk: fs/promises and fs-extra as the handlers use them.  A file is *)
(* known by its length; the handlers never look inside a buffer.  An       *)
(* operation returns the disk it leaves and the error it threw ("" when it *)
(* did not throw).                                                          *)

DIR == [type |-> "directory", size |-> 0]
FILE(n) == [type |-> "file", size |-> n]

Done(D) == [disk |-> D, err |-> ""]
Fail(D, code) == [disk |-> D, err |-> code]

\* p and every directory above it, the root excluded
RECURSIVE ancestors(_)
ancestors(p) == IF p = <<SEP>> THEN {} ELSE {p} \cup ancestors(dirname(p))

\* p is d or lies in the subtree of d
isWithin(p, d) == p = d \/ startsWith(p, d \o <<SEP>>)

\* a path component above p is a file (ENOTDIR)
underFile(D, p) ==
    \E a \in ancestors(p) \ {p} : a \in DOMAIN D /\ D[a].type = "file"

\* fse.pathExists: fs.access, false on any error
pathExists(D, p) == p \in DOMAIN D

\* fse.ensureDir: mkdir recursive
ensureDir(D, p) ==
    IF underFile(D, p) THEN Fail(D, "ENOTDIR")
    ELSE IF p \in DOMAIN D /\ D[p].type = "file" THEN Fail(D, "EEXIST")
    ELSE Done([q \in DOMAIN D \cup ancestors(p) |->
                 IF q \in DOMAIN D THEN D[q] ELSE DIR])

\* fs.writeFile with the flag wx: fails when the path exists
writeFileExclusive(D, p, size) ==
    IF underFile(D, p) THEN Fail(D, "ENOTDIR")
    ELSE IF dirname(p) \notin DOMAIN D THEN Fail(D, "ENOENT")
    ELSE IF p \in DOMAIN D THEN Fail(D, "EEXIST")
    ELSE Done([q \in DOMAIN D \cup {p} |-> IF q = p THEN FILE(size) ELSE D[q]])

\* fs.writeFile: creates or truncates the file, never a directory
writeFile(D, p, size) ==
    IF underFile(D, p) THEN Fail(D, "ENOTDIR")
    ELSE IF dirname(p) \notin DOMAIN D THEN Fail(D, "ENOENT")
    ELSE IF p \in DOMAIN D /\ D[p].type = "directory" THEN Fail(D, "EISDIR")
    ELSE Done([q \in DOMAIN D \cup {p} |-> IF q = p THEN FILE(size) ELSE D[q]])

\* a remove that succeeds and leaves the target where it is
removeNothing(D, p) == Done(D)

\* fse.remove: rm recursive and force; an absent target is no error
remove(D, p) ==
    IF underFile(D, p) THEN Fail(D, "ENOTDIR")
    ELSE Done([q \in {x \in DOMAIN D : ~isWithin(x, p)} |-> D[q]])

\* where an entry of the subtree of src is after src became dest
relocate(q, src, dest) == dest \o SubSeq(q, Len(src) + 1, Len(q))

\* fs.rename, rename(2): replaces a file or an empty directory at dest
rename(D, src, dest) ==
    IF underFile(D, src) \/ underFile(D, dest) THEN Fail(D, "ENOTDIR")
    ELSE IF src \notin DOMAIN D \/ dirname(dest) \notin DOMAIN D THEN Fail(D, "ENOENT")
    ELSE IF src = dest THEN Done(D)
    ELSE IF isWithin(dest, src) THEN Fail(D, "EINVAL")
    ELSE IF dest \in DOMAIN D /\ D[src].type = "directory" /\ D[dest].type = "file"
      THEN Fail(D, "ENOTDIR")
    ELSE IF dest \in DOMAIN D /\ D[src].type = "file" /\ D[dest].type = "directory"
      THEN Fail(D, "EISDIR")
    ELSE IF dest \in DOMAIN D /\ \E x \in DOMAIN D : x # dest /\ isWithin(x, dest)
      THEN Fail(D, "ENOTEMPTY")
    ELSE LET moved == {x \in DOMAIN D : isWithin(x, src)}
             kept == {x \in DOMAIN D : ~isWithin(x, src) /\ x # dest}
             from(q) == CHOOSE x \in moved : relocate(x, src, dest) = q
         IN Done([q \in kept \cup {relocate(x, src, dest) : x \in moved} |->
                    IF q \in kept THEN D[q] ELSE D[from(q)]])

\* isSrcSubdir of fs-extra: every component of src is the same component of dest
isSrcSubdir(src, dest) ==
    LET srcArr == split(src)
        destArr == split(dest)
    IN \A i \in 1..Len(srcArr) : i <= Len(destArr) /\ destArr[i] = srcArr[i]

\* stat.checkPaths of fs-extra, the first step of fse.move
checkPaths(D, src, dest) ==
    IF underFile(D, src) \/ underFile(D, dest) THEN "ENOTDIR"
    ELSE IF src \notin DOMAIN D THEN "ENOENT"
    ELSE IF dest \in DOMAIN D /\ dest = src
      THEN "Source and destination must not be the same."
    ELSE IF dest \in DOMAIN D /\ D[src].type = "directory" /\ D[dest].type # "directory"
      THEN "Cannot overwrite non-directory with directory"
    ELSE IF dest \in DOMAIN D /\ D[src].type # "directory" /\ D[dest].type = "directory"
      THEN "Cannot overwrite directory with non-directory"
    ELSE IF D[src].type = "directory" /\ isSrcSubdir(src, dest)
      THEN "Cannot move to a subdirectory of itself"
    ELSE ""

\* doRename of fs-extra, overwrite false: the last step of fse.move
doRename(D, src, dest) ==
    IF pathExists(D, dest) THEN Fail(D, "dest already exists.")
    ELSE rename(D, src, dest)

\* fs.rename called in place of fse.move: no parent directory is made
moveByRename(D, src, dest) == rename(D, src, dest)

\* fse.move(src, dest): checkPaths, mkdirp of dest's parent, doRename
move(D, src, dest) ==
    LET checked == checkPaths(D, src, dest) IN
    IF checked # "" THEN Fail(D, checked)
    ELSE LET made == ensureDir(D, dirname(dest)) IN
    IF made.err # "" THEN made
    ELSE doRename(made.disk, src, dest)

-----------------------------------------------------------------------------
(* Guards and handlers of server/src/index.js.  A handler returns the disk *)
(* it leaves and the response the error middleware or res.json sends.      *)

MAX_UPLOAD_SIZE == 50 * 1024 * 1024

\* what a guard returns in place of a path when it throws
Thrown == <<>>

Reply(D, status, error) == [disk |-> D, status |-> status, error |-> error]

\* the error middleware: err.status || 500, err.message
Caught(r) == Reply(r.disk, 500, r.err)

\* values of a JSON body that are not strings: null (or a missing field) and
\* a number
null == <<"#null">>
number == <<"#42">>

\* typeof v === 'string'
typeofString(v) == v \notin {null, number}

\* the guard without its second test (lines 32-36)
assertValidNameRequired(name) ==
    IF Len(name) = 0 \/ ~typeofString(name) THEN "Name is required" ELSE ""

\* "" when the name passes, the message thrown (status 400) otherwise
assertValidName(name) ==
    IF Len(name) = 0 \/ ~typeofString(name) THEN "Name is required"
    ELSE IF includes(name, <<SEP>>) \/ includes(name, DOTDOT) THEN "Invalid name"
    ELSE ""

resolvePostDir(slug) ==
    LET joined == join(POSTS_DIR, slug)
        normalized == normalize(joined)
    IN IF ~startsWith(normalized, POSTS_DIR) THEN Thrown ELSE normalized

resolveWithin(baseDir, targetPath) ==
    LET joined == join(baseDir, targetPath)
        normalized == normalize(joined)
    IN IF ~startsWith(normalized, baseDir) THEN Thrown ELSE normalized

\* an ensurePostDirectory that never throws
ensurePostDirectoryPassing(D, dirPath) == TRUE

\* ensurePostDirectory throws 'Post not found' (404) exactly when this is false
ensurePostDirectory(D, dirPath) == pathExists(D, dirPath)

\* the cap taken as exclusive: a file of exactly the limit is refused
multerAcceptsBelow(size) == size < MAX_UPLOAD_SIZE

\* multer with memoryStorage and limits.fileSize: a part longer than the
\* limit is refused before the handler runs
multerAccepts(size) == size <= MAX_UPLOAD_SIZE

\* preservePath on: the part's filename as the client sent it
originalnameKept(fileName) == fileName

\* file.originalname: multer leaves preservePath off, so the parser keeps
\* the base name of the part's filename, and "" for "." and ".."
originalname(fileName) ==
    LET base == basename(fileName)
    IN IF base = DOT \/ base = DOTDOT THEN <<>> ELSE base

\* POST /api/posts/:slug/files/upload; a part without a filename is no file
uploadHandler(D, slug, target, fileName, size) ==
    IF ~multerAccepts(size) THEN Reply(D, 500, "File too large")
    ELSE IF Len(originalname(fileName)) = 0 THEN Reply(D, 400, "File is required")
    ELSE LET postDir == resolvePostDir(slug) IN
    IF postDir = Thrown THEN Reply(D, 400, "Invalid post path")
    ELSE LET made == ensureDir(D, postDir) IN
    IF made.err # "" THEN Caught(made)
    ELSE LET destinationDir == resolveWithin(postDir, target) IN
    IF destinationDir = Thrown THEN Reply(made.disk, 400, "Path traversal is not allowed")
    ELSE LET dest == ensureDir(made.disk, destinationDir) IN
    IF dest.err # "" THEN Caught(dest)
    ELSE LET filePath == join(destinationDir, originalname(fileName))
             written == writeFile(dest.disk, filePath, size)
         IN IF written.err # "" THEN Caught(written)
            ELSE Reply(written.disk, 201, "")

\* create-folder without the check of lines 298-303: ensureDir of a folder
\* that exists succeeds
createFolderHandlerEnsuring(D, slug, parent, name) ==
    IF assertValidName(name) # "" THEN Reply(D, 400, assertValidName(name))
    ELSE LET postDir == resolvePostDir(slug) IN
    IF postDir = Thrown THEN Reply(D, 400, "Invalid post path")
    ELSE LET made == ensureDir(D, postDir) IN
    IF made.err # "" THEN Caught(made)
    ELSE LET parentDir == resolveWithin(postDir, parent) IN
    IF parentDir = Thrown THEN Reply(made.disk, 400, "Path traversal is not allowed")
    ELSE LET created == ensureDir(made.disk, join(parentDir, name))
         IN IF created.err # "" THEN Caught(created)
            ELSE Reply(created.disk, 201, "")

\* POST /api/posts/:slug/files/create-folder
createFolderHandler(D, slug, parent, name) ==
    IF assertValidName(name) # "" THEN Reply(D, 400, assertValidName(name))
    ELSE LET postDir == resolvePostDir(slug) IN
    IF postDir = Thrown THEN Reply(D, 400, "Invalid post path")
    ELSE LET made == ensureDir(D, postDir) IN
    IF made.err # "" THEN Caught(made)
    ELSE LET parentDir == resolveWithin(postDir, parent) IN
    IF parentDir = Thrown THEN Reply(made.disk, 400, "Path traversal is not allowed")
    ELSE LET folderPath == join(parentDir, name) IN
    IF pathExists(made.disk, folderPath) THEN Reply(made.disk, 409, "Folder already exists")
    ELSE LET created == ensureDir(made.disk, folderPath)
         IN IF created.err # "" THEN Caught(created)
            ELSE Reply(created.disk, 201, "")

\* the rename handler without its own check of the target (lines 324-329)
renameHandlerUnchecked(D, slug, source, target) ==
    IF Len(source) = 0 \/ Len(target) = 0
      THEN Reply(D, 400, "source and target are required")
    ELSE LET postDir == resolvePostDir(slug) IN
    IF postDir = Thrown THEN Reply(D, 400, "Invalid post path")
    ELSE IF ~ensurePostDirectory(D, postDir) THEN Reply(D, 404, "Post not found")
    ELSE LET sourcePath == resolveWithin(postDir, source)
             targetPath == resolveWithin(postDir, target)
         IN
    IF sourcePath = Thrown \/ targetPath = Thrown
      THEN Reply(D, 400, "Path traversal is not allowed")
    ELSE LET moved == move(D, sourcePath, targetPath)
         IN IF moved.err # "" THEN Caught(moved)
            ELSE Reply(moved.disk, 200, "")

\* PUT /api/posts/:slug/files/rename
renameHandler(D, slug, source, target) ==
    IF Len(source) = 0 \/ Len(target) = 0
      THEN Reply(D, 400, "source and target are required")
    ELSE LET postDir == resolvePostDir(slug) IN
    IF postDir = Thrown THEN Reply(D, 400, "Invalid post path")
    ELSE IF ~ensurePostDirectory(D, postDir) THEN Reply(D, 404, "Post not found")
    ELSE LET sourcePath == resolveWithin(postDir, source)
             targetPath == resolveWithin(postDir, target)
         IN
    IF sourcePath = Thrown \/ targetPath = Thrown
      THEN Reply(D, 400, "Path traversal is not allowed")
    ELSE IF pathExists(D, targetPath) THEN Reply(D, 409, "Target already exists")
    ELSE LET moved == move(D, sourcePath, targetPath)
         IN IF moved.err # "" THEN Caught(moved)
            ELSE Reply(moved.disk, 200, "")

\* DELETE /api/posts/:slug/files
removeHandler(D, slug, target) ==
    IF Len(target) = 0 THEN Reply(D, 400, "target is required")
    ELSE LET postDir == resolvePostDir(slug) IN
    IF postDir = Thrown THEN Reply(D, 400, "Invalid post path")
    ELSE IF ~ensurePostDirectory(D, postDir) THEN Reply(D, 404, "Post not found")
    ELSE LET targetPath == resolveWithin(postDir, target) IN
    IF targetPath = Thrown THEN Reply(D, 400, "Path traversal is not allowed")
    ELSE LET removed == remove(D, targetPath)
         IN IF removed.err # "" THEN Caught(removed)
            ELSE Reply(removed.disk, 200, "")

-----------------------------------------------------------------------------
(* Requests one after another: every handler runs to its response before   *)
(* the next request starts.                                                *)

\* the most entries the disk holds; a request that would exceed it is not sent
MaxEntries == 10

foo == <<"foo">>
foobar == <<"foo", "bar">>

\* slugs: the post foo, a post that does not exist, a sibling of the posts
\* root (../posts-backup), a directory outside the content root
new == <<"new">>
postsBackup == <<".", ".", SEP, "posts", "-backup">>
outside == <<".", ".", SEP, ".", ".", SEP, "etc">>

\* relative paths: the post foobar and an entry of it, seen from the post
\* foo, and a directory outside the content root
foobarDir == <<".", ".", SEP, "foo", "bar">>
foobarEntry == <<".", ".", SEP, "foo", "bar", SEP, "a">>
escaping == <<".", ".", SEP, ".", ".", SEP, ".", ".", SEP, "etc">>

\* lengths of the uploaded file: at the cap and one byte over
Sizes == {MAX_UPLOAD_SIZE, MAX_UPLOAD_SIZE + 1}

UploadRequests(slugs, paths, fileNames, sizes) ==
    {[slug |-> s, target |-> t, fileName |-> f, size |-> z] :
        s \in slugs, t \in paths, f \in fileNames, z \in sizes}
CreateFolderRequests(slugs, paths, names) ==
    {[slug |-> s, parent |-> t, name |-> n] : s \in slugs, t \in paths, n \in names}
RenameRequests(slugs, paths) ==
    {[slug |-> s, source |-> a, target |-> b] : s \in slugs, a \in paths, b \in paths}
RemoveRequests(slugs, paths) ==
    {[slug |-> s, target |-> t] : s \in slugs, t \in paths}

\* Spec: the clients work inside the post foo and start the post new
Paths == {<<>>, <<"a">>, <<"d">>, <<"d", SEP, "a">>}
Names == {<<"a">>, <<"d">>}
FileNames == {<<"a">>, <<".", ".", SEP, "a">>, DOTDOT}
Requests ==
    [upload |-> UploadRequests({foo}, Paths, FileNames, Sizes)
                  \cup UploadRequests({new}, {<<>>}, {<<"a">>}, Sizes),
     createFolder |-> CreateFolderRequests({foo}, Paths, Names)
                  \cup CreateFolderRequests({new}, {<<>>}, {<<"a">>}),
     rename |-> RenameRequests({foo}, Paths) \cup RenameRequests({new}, {<<"a">>, <<"d">>}),
     remove |-> RemoveRequests({foo}, Paths) \cup RemoveRequests({new}, {<<"a">>})]

\* SpecGuard: the clients send slugs and paths that leave their root
GuardSlugs == {foo, new, postsBackup, outside}
GuardDirs == {<<>>, foobarDir, escaping}
GuardPaths == {<<"a">>, foobarEntry, escaping}
GuardRequests ==
    [upload |-> UploadRequests(GuardSlugs, GuardDirs, {<<"a">>}, {MAX_UPLOAD_SIZE}),
     createFolder |-> CreateFolderRequests(GuardSlugs, GuardDirs, {<<"a">>}),
     rename |-> RenameRequests(GuardSlugs, GuardPaths),
     remove |-> RemoveRequests(GuardSlugs, GuardPaths)]

NoReq == [op |-> "none"]
NoRes == [status |-> 0, error |-> ""]

\* concurrent clients of SpecRace
MaxClients == 2
Clients == 1..MaxClients

\* a client that has sent nothing yet: pc is the await the handler is at,
\* r the request, after the clients that had their response when it was sent
Idle == [pc |-> "idle", r |-> <<>>, status |-> 0, error |-> "", after |-> {}]

\* no editor page is open
NoEditor == [status |-> "closed"]

\* a response without a tree, from a handler that started no process
NoOut == [tree |-> <<>>, spawned |-> 0]

\* no tree request in flight
NoWalk == [pc |-> "idle", todo |-> {}, nodes |-> {}, status |-> 0, error |-> ""]

Disk0 ==
    LET dirs == {<<SEP>>, CONTENT_ROOT, POSTS_DIR, join(POSTS_DIR, foo), join(POSTS_DIR, foobar)}
        files == {join(join(POSTS_DIR, foo), <<"a">>), join(join(POSTS_DIR, foobar), <<"a">>)}
    IN [p \in dirs \cup files |-> IF p \in dirs THEN DIR ELSE FILE(1)]

Init ==
    /\ disk = Disk0
    /\ req = NoReq
    /\ res = NoRes
    /\ pend = [c \in Clients |-> Idle]
    /\ walk = NoWalk
    /\ out = NoOut
    /\ log = <<>>
    /\ editor = NoEditor

\* request is handled: r, the handler's outcome, is the disk it leaves and
\* the response it sends
Respond(request, r) ==
    /\ req = NoReq
    /\ Cardinality(DOMAIN r.disk) <= MaxEntries
    /\ disk' = r.disk
    /\ req' = request
    /\ res' = [status |-> r.status, error |-> r.error]
    /\ out' = NoOut
    /\ UNCHANGED <<pend, walk, log, editor>>

Upload(requests) ==
    \E r \in requests.upload :
        Respond([op |-> "upload"] @@ r,
                uploadHandler(disk, r.slug, r.target, r.fileName, r.size))

CreateFolder(requests) ==
    \E r \in requests.createFolder :
        Respond([op |-> "create-folder"] @@ r,
                createFolderHandler(disk, r.slug, r.parent, r.name))

Rename(requests) ==
    \E r \in requests.rename :
        Respond([op |-> "rename"] @@ r, renameHandler(disk, r.slug, r.source, r.target))

Remove(requests) ==
    \E r \in requests.remove :
        Respond([op |-> "remove"] @@ r, removeHandler(disk, r.slug, r.target))

\* the response has gone out; the server waits for the next request
Sent ==
    /\ req # NoReq
    /\ req' = NoReq
    /\ res' = NoRes
    /\ out' = NoOut
    /\ UNCHANGED <<disk, pend, walk, log, editor>>

Next ==
    \/ Upload(Requests)
    \/ CreateFolder(Requests)
    \/ Rename(Requests)
    \/ Remove(Requests)
    \/ Sent

Spec == Init /\ [][Next]_vars

NextGuard ==
    \/ Upload(GuardRequests)
    \/ CreateFolder(GuardRequests)
    \/ Rename(GuardRequests)
    \/ Remove(GuardRequests)
    \/ Sent

SpecGuard == Init /\ [][NextGuard]_vars

-----------------------------------------------------------------------------
(* Concurrent requests: a handler gives way to the other requests at every *)
(* await, so the steps of two handlers interleave.  rename and             *)
(* create-folder are followed await by await, fse.move included.           *)

\* the requests that race: two sources renamed to one target, one folder
\* created twice, and a target that exists from the start
RaceRequests ==
    {[op |-> "rename", slug |-> foo, source |-> a, target |-> b] :
        a \in {<<"a">>, <<"d">>}, b \in {<<"t">>, <<"a">>}}
    \cup {[op |-> "create-folder", slug |-> foo, parent |-> <<>>, name |-> n] :
        n \in {<<"t">>, <<"a">>}}

\* the post foo holds the files a and d when the requests arrive
InitRace ==
    /\ disk = uploadHandler(Disk0, foo, <<>>, <<"d">>, MAX_UPLOAD_SIZE).disk
    /\ req = NoReq
    /\ res = NoRes
    /\ pend = [c \in Clients |-> Idle]
    /\ walk = NoWalk
    /\ out = NoOut
    /\ log = <<>>
    /\ editor = NoEditor

\* client c's handler goes on to the await pc
Await(c, pc) ==
    /\ pend' = [pend EXCEPT ![c].pc = pc]
    /\ UNCHANGED <<disk, req, res, walk, out, log, editor>>

\* client c's handler responds
Finish(c, D, status, error) ==
    /\ disk' = D
    /\ pend' = [pend EXCEPT ![c].pc = "done", ![c].status = status, ![c].error = error]
    /\ UNCHANGED <<req, res, walk, out, log, editor>>

\* the request arrives; its handler runs to its first await
Send(c) ==
    /\ pend[c].pc = "idle"
    /\ \E r \in RaceRequests :
        /\ pend' = [pend EXCEPT ![c].r = r,
                                ![c].pc = IF r.op = "rename" THEN "ensurePostDirectory"
                                          ELSE "ensureDir",
                                ![c].after = {o \in Clients : pend[o].pc = "done"}]
        /\ UNCHANGED <<disk, req, res, walk, out, log, editor>>

\* rename, line 321: await ensurePostDirectory(postDir)
RenameEnsurePost(c) ==
    /\ pend[c].pc = "ensurePostDirectory"
    /\ IF ~ensurePostDirectory(disk, resolvePostDir(pend[c].r.slug))
         THEN Finish(c, disk, 404, "Post not found")
         ELSE Await(c, "pathExists")

\* rename, lines 322-329: the guards, then await fse.pathExists(targetPath)
RenamePathExists(c) ==
    /\ pend[c].pc = "pathExists"
    /\ LET postDir == resolvePostDir(pend[c].r.slug)
           sourcePath == resolveWithin(postDir, pend[c].r.source)
           targetPath == resolveWithin(postDir, pend[c].r.target)
       IN IF sourcePath = Thrown \/ targetPath = Thrown
            THEN Finish(c, disk, 400, "Path traversal is not allowed")
          ELSE IF pathExists(disk, targetPath)
            THEN Finish(c, disk, 409, "Target already exists")
          ELSE Await(c, "checkPaths")

\* the paths fse.move was called with
MoveSrc(c) == resolveWithin(resolvePostDir(pend[c].r.slug), pend[c].r.source)
MoveDest(c) == resolveWithin(resolvePostDir(pend[c].r.slug), pend[c].r.target)

\* rename, line 330, fse.move: await stat.checkPaths
MoveCheckPaths(c) ==
    /\ pend[c].pc = "checkPaths"
    /\ LET checked == checkPaths(disk, MoveSrc(c), MoveDest(c))
       IN IF checked # "" THEN Finish(c, disk, 500, checked)
          ELSE Await(c, "mkdirp")

\* fse.move: await mkdirp(destParent)
MoveMkdirp(c) ==
    /\ pend[c].pc = "mkdirp"
    /\ LET made == ensureDir(disk, dirname(MoveDest(c)))
       IN IF made.err # "" THEN Finish(c, made.disk, 500, made.err)
          ELSE /\ disk' = made.disk
               /\ pend' = [pend EXCEPT ![c].pc = "doRename"]
               /\ UNCHANGED <<req, res, walk, out, log, editor>>

\* fse.move, doRename: await pathExists(dest)
MoveDestExists(c) ==
    /\ pend[c].pc = "doRename"
    /\ IF pathExists(disk, MoveDest(c))
         THEN Finish(c, disk, 500, "dest already exists.")
         ELSE Await(c, "rename")

\* fse.move, doRename: await fs.rename(src, dest)
MoveRename(c) ==
    /\ pend[c].pc = "rename"
    /\ LET renamed == rename(disk, MoveSrc(c), MoveDest(c))
       IN IF renamed.err # "" THEN Finish(c, renamed.disk, 500, renamed.err)
          ELSE Finish(c, renamed.disk, 200, "")

\* create-folder, line 295: await fse.ensureDir(postDir)
CreateEnsurePost(c) ==
    /\ pend[c].pc = "ensureDir"
    /\ LET made == ensureDir(disk, resolvePostDir(pend[c].r.slug))
       IN IF made.err # "" THEN Finish(c, made.disk, 500, made.err)
          ELSE /\ disk' = made.disk
               /\ pend' = [pend EXCEPT ![c].pc = "folderExists"]
               /\ UNCHANGED <<req, res, walk, out, log, editor>>

\* the folder create-folder is about
FolderPath(c) ==
    join(resolveWithin(resolvePostDir(pend[c].r.slug), pend[c].r.parent), pend[c].r.name)

\* create-folder without the check of lines 298-303
CreatePathExistsSkipped(c) ==
    /\ pend[c].pc = "folderExists"
    /\ IF resolveWithin(resolvePostDir(pend[c].r.slug), pend[c].r.parent) = Thrown
         THEN Finish(c, disk, 400, "Path traversal is not allowed")
       ELSE Await(c, "ensureFolder")

\* create-folder, lines 296-303: await fse.pathExists(folderPath)
CreatePathExists(c) ==
    /\ pend[c].pc = "folderExists"
    /\ IF resolveWithin(resolvePostDir(pend[c].r.slug), pend[c].r.parent) = Thrown
         THEN Finish(c, disk, 400, "Path traversal is not allowed")
       ELSE IF pathExists(disk, FolderPath(c))
         THEN Finish(c, disk, 409, "Folder already exists")
       ELSE Await(c, "ensureFolder")

\* create-folder, line 304: await fse.ensureDir(folderPath)
CreateEnsureFolder(c) ==
    /\ pend[c].pc = "ensureFolder"
    /\ LET created == ensureDir(disk, FolderPath(c))
       IN IF created.err # "" THEN Finish(c, created.disk, 500, created.err)
          ELSE Finish(c, created.disk, 201, "")

NextRace ==
    \E c \in Clients :
        \/ Send(c)
        \/ RenameEnsurePost(c)
        \/ RenamePathExists(c)
        \/ MoveCheckPaths(c)
        \/ MoveMkdirp(c)
        \/ MoveDestExists(c)
        \/ MoveRename(c)
        \/ CreateEnsurePost(c)
        \/ CreatePathExists(c)
        \/ CreateEnsureFolder(c)

SpecRace == InitRace /\ [][NextRace]_vars

-----------------------------------------------------------------------------
(* GET /api/posts/:slug/files while other requests change the disk.        *)
(* directoryTree starts the readdir of a directory and, once it has the    *)
(* entries, a stat for every file and a directoryTree for every directory, *)
(* all under Promise.all: each completes at its own time, in any order,    *)
(* and the first one that throws rejects the whole tree.                   *)

DS_Store == <<".", "DS_Store">>

\* the full path in place of the path from the post's directory
relativeAbsolute(baseDir, fullPath) == fullPath

\* path.relative(baseDir, fullPath) for a path below baseDir
relative(baseDir, fullPath) == SubSeq(fullPath, Len(baseDir) + 2, Len(fullPath))

\* the entries fs.readdir(dir, withFileTypes) returns, each with its type
readdir(D, dir) ==
    {[path |-> q, type |-> D[q].type] : q \in {x \in DOMAIN D : x # dir /\ dirname(x) = dir}}

\* what the other clients send while the tree is built
TreeRequests ==
    [upload |-> UploadRequests({foo}, {<<"d">>}, {<<"a">>}, {MAX_UPLOAD_SIZE}),
     remove |-> RemoveRequests({foo}, {<<"a">>, <<"d">>, <<"d", SEP, "a">>})]

\* the post whose tree is requested
TreePost == resolvePostDir(foo)

\* the tree request arrives
TreeSend ==
    /\ walk.pc \in {"idle", "done"}
    /\ walk' = [NoWalk EXCEPT !.pc = "ensurePostDirectory"]
    /\ UNCHANGED <<disk, req, res, pend, out, log, editor>>

\* line 259: await ensurePostDirectory(postDir), then directoryTree(postDir, postDir)
TreeEnsurePost ==
    /\ walk.pc = "ensurePostDirectory"
    /\ walk' = IF ~ensurePostDirectory(disk, TreePost)
                 THEN [walk EXCEPT !.pc = "done", !.status = 404, !.error = "Post not found"]
                 ELSE [walk EXCEPT !.pc = "directoryTree",
                                   !.todo = {[path |-> TreePost, type |-> "directory"]}]
    /\ UNCHANGED <<disk, req, res, pend, out, log, editor>>

\* line 62: a readdir completes; lines 64-75 start the work on its entries
TreeReaddir ==
    /\ walk.pc = "directoryTree"
    /\ \E e \in walk.todo :
        /\ e.type = "directory"
        /\ walk' =
            IF e.path \notin DOMAIN disk \/ disk[e.path].type # "directory"
              THEN [walk EXCEPT !.pc = "done", !.status = 500, !.error = "ENOENT", !.todo = {}]
            ELSE [walk EXCEPT
                    !.todo = (walk.todo \ {e})
                             \cup {x \in readdir(disk, e.path) : basename(x.path) # DS_Store},
                    !.nodes = IF e.path = TreePost THEN walk.nodes
                              ELSE walk.nodes \cup
                                   {[type |-> "directory", name |-> basename(e.path),
                                     path |-> relative(TreePost, e.path), size |-> 0]}]
    /\ UNCHANGED <<disk, req, res, pend, out, log, editor>>

\* line 73: a stat completes
TreeStat ==
    /\ walk.pc = "directoryTree"
    /\ \E e \in walk.todo :
        /\ e.type = "file"
        /\ walk' =
            IF e.path \notin DOMAIN disk
              THEN [walk EXCEPT !.pc = "done", !.status = 500, !.error = "ENOENT", !.todo = {}]
            ELSE [walk EXCEPT
                    !.todo = walk.todo \ {e},
                    !.nodes = walk.nodes \cup
                              {[type |-> "file", name |-> basename(e.path),
                                path |-> relative(TreePost, e.path),
                                size |-> disk[e.path].size]}]
    /\ UNCHANGED <<disk, req, res, pend, out, log, editor>>

\* line 261: every promise has resolved, res.json({ tree })
TreeRespond ==
    /\ walk.pc = "directoryTree"
    /\ walk.todo = {}
    /\ walk' = [walk EXCEPT !.pc = "done", !.status = 200]
    /\ UNCHANGED <<disk, req, res, pend, out, log, editor>>

NextTree ==
    \/ TreeSend
    \/ TreeEnsurePost
    \/ TreeReaddir
    \/ TreeStat
    \/ TreeRespond
    \/ Upload(TreeRequests)
    \/ Remove(TreeRequests)
    \/ Sent

SpecTree == Init /\ [][NextTree]_vars

-----------------------------------------------------------------------------
(* directoryTree when nothing else touches the disk, and the order of its  *)
(* items.  String.prototype.localeCompare collates: it compares the        *)
(* letters without their case first, punctuation before letters, and lets  *)
(* the case decide only between names that are otherwise equal, the lower  *)
(* case first.  A run of letters written as one character collates as one  *)
(* letter; the names used are such that this is the order of the strings.  *)

\* the characters of the names in collation order, each with its lower case
Collation ==
    << <<".">>, <<"a", "A">>, <<"assets">>, <<"b", "B">>, <<"d">>, <<"index">>,
       <<"md">>, <<"media">>, <<"t">> >>

\* the weight of a character without its case
primary(ch) == CHOOSE i \in DOMAIN Collation : \E j \in DOMAIN Collation[i] : Collation[i][j] = ch

\* the weight of its case: lower case first
tertiary(ch) == CHOOSE j \in DOMAIN Collation[primary(ch)] : Collation[primary(ch)][j] = ch

\* the characters in the order of their code units: upper case before lower
CodeUnits == <<".", "A", "B", "a", "assets", "b", "d", "index", "md", "media", "t">>
codeUnit(ch) == CHOOSE i \in DOMAIN CodeUnits : CodeUnits[i] = ch

\* a and b compared character by character on the weight w
RECURSIVE compareBy(_, _, _)
compareBy(a, b, w) ==
    IF Len(a) = 0 /\ Len(b) = 0 THEN 0
    ELSE IF Len(a) = 0 THEN -1
    ELSE IF Len(b) = 0 THEN 1
    ELSE IF w[Head(a)] < w[Head(b)] THEN -1
    ELSE IF w[Head(a)] > w[Head(b)] THEN 1
    ELSE compareBy(Tail(a), Tail(b), w)

\* the characters a name can hold
Characters == {CodeUnits[i] : i \in DOMAIN CodeUnits}

\* a comparison of the code units, as the < of strings makes it
compareCodeUnits(a, b) == compareBy(a, b, [ch \in Characters |-> codeUnit(ch)])

\* a.localeCompare(b)
localeCompare(a, b) ==
    LET first == compareBy(a, b, [ch \in Characters |-> primary(ch)])
    IN IF first # 0 THEN first
       ELSE compareBy(a, b, [ch \in Characters |-> tertiary(ch)])

\* the comparator of lines 78-83
compareItems(a, b) ==
    IF a.type = b.type THEN localeCompare(a.name, b.name)
    ELSE IF a.type = "directory" THEN -1 ELSE 1

\* Array.prototype.sort with that comparator: a stable sort
RECURSIVE insertItem(_, _)
insertItem(x, sorted) ==
    IF Len(sorted) = 0 THEN <<x>>
    ELSE IF compareItems(x, Head(sorted)) < 0 THEN <<x>> \o sorted
    ELSE <<Head(sorted)>> \o insertItem(x, Tail(sorted))

RECURSIVE sort(_)
sort(items) ==
    IF Len(items) = 0 THEN <<>>
    ELSE insertItem(items[Len(items)], sort(SubSeq(items, 1, Len(items) - 1)))

\* the entries of a readdir in the order the file system hands them out
RECURSIVE listing(_)
listing(entries) ==
    IF entries = {} THEN <<>>
    ELSE LET e == CHOOSE x \in entries : TRUE IN <<e>> \o listing(entries \ {e})

\* a tree of the first level only: the folders are listed without what is
\* in them
directoryTreeShallow(D, currentDir, baseDir) ==
    LET entries == listing({e \in readdir(D, currentDir) : basename(e.path) # DS_Store})
        item(e) ==
            [type |-> e.type, name |-> basename(e.path),
             path |-> relative(baseDir, e.path),
             size |-> IF e.type = "directory" THEN 0 ELSE D[e.path].size,
             children |-> <<>>]
    IN sort([i \in DOMAIN entries |-> item(entries[i])])

\* directoryTree(currentDir, baseDir), lines 61-84
RECURSIVE directoryTree(_, _, _)
directoryTree(D, currentDir, baseDir) ==
    LET entries == listing({e \in readdir(D, currentDir) : basename(e.path) # DS_Store})
        item(e) ==
            IF e.type = "directory"
              THEN [type |-> "directory", name |-> basename(e.path),
                    path |-> relative(baseDir, e.path), size |-> 0,
                    children |-> directoryTree(D, e.path, baseDir)]
            ELSE [type |-> "file", name |-> basename(e.path),
                  path |-> relative(baseDir, e.path), size |-> D[e.path].size,
                  children |-> <<>>]
    IN sort([i \in DOMAIN entries |-> item(entries[i])])

\* GET /api/posts/:slug/files
treeHandler(D, slug) ==
    LET postDir == resolvePostDir(slug) IN
    IF postDir = Thrown THEN Reply(D, 400, "Invalid post path") @@ [tree |-> <<>>]
    ELSE IF ~ensurePostDirectory(D, postDir)
      THEN Reply(D, 404, "Post not found") @@ [tree |-> <<>>]
    ELSE IF postDir \notin DOMAIN D THEN Reply(D, 500, "ENOENT") @@ [tree |-> <<>>]
    ELSE IF D[postDir].type # "directory" THEN Reply(D, 500, "ENOTDIR") @@ [tree |-> <<>>]
    ELSE Reply(D, 200, "") @@ [tree |-> directoryTree(D, postDir, postDir)]

-----------------------------------------------------------------------------
(* The operations on whole posts and on the index document.  The post      *)
(* script (fish website.fish post <name>) is a process the server knows    *)
(* nothing about: whether it can be started, its exit code, what it wrote  *)
(* to stderr and what it did to the disk are the choice of the run.        *)

WEBSITE_SCRIPT == join(CONTENT_ROOT, <<"website.fish">>)
index_md == <<"index", ".", "md">>

\* "" when both exist, the message thrown (no status) otherwise
ensureContentStructure(D) ==
    IF ~pathExists(D, POSTS_DIR) THEN "Posts directory not found"
    ELSE IF ~pathExists(D, WEBSITE_SCRIPT) THEN "website.fish script not found"
    ELSE ""

\* what the script leaves on the disk when it scaffolds the post
scaffold(D, name) ==
    LET made == ensureDir(D, join(POSTS_DIR, name)) IN
    IF made.err # "" THEN D
    ELSE writeFile(made.disk, join(join(POSTS_DIR, name), index_md), 0).disk

\* the script's exit code is not looked at: every close resolves
runWebsiteScriptResolving(D, name, run) ==
    LET after == IF run.scaffolds THEN scaffold(D, name) ELSE D IN
    IF run.event = "error" THEN [disk |-> D, err |-> "spawn fish ENOENT", status |-> 500]
    ELSE [disk |-> after, err |-> "", status |-> 0]

\* runWebsiteScript(name): the promise rejects with err ("" when it resolves)
runWebsiteScript(D, name, run) ==
    LET after == IF run.scaffolds THEN scaffold(D, name) ELSE D IN
    IF run.event = "error" THEN [disk |-> D, err |-> "spawn fish ENOENT", status |-> 500]
    ELSE IF run.code # 0
      THEN [disk |-> after,
            err |-> IF run.stderr # "" THEN run.stderr ELSE "Failed to create post",
            status |-> 500]
    ELSE [disk |-> after, err |-> "", status |-> 0]

\* a response of the create-post handler: spawned counts the processes started
Created(D, status, error, spawned) == Reply(D, status, error) @@ [spawned |-> spawned]

\* POST /api/posts
createPostHandler(D, name, run) ==
    IF assertValidName(name) # "" THEN Created(D, 400, assertValidName(name), 0)
    ELSE LET targetDir == join(POSTS_DIR, name) IN
    IF pathExists(D, targetDir) THEN Created(D, 409, "A post with this name already exists", 0)
    ELSE IF ensureContentStructure(D) # "" THEN Created(D, 500, ensureContentStructure(D), 0)
    ELSE LET ran == runWebsiteScript(D, name, run)
         IN IF ran.err # "" THEN Created(ran.disk, ran.status, ran.err, 1)
            ELSE Created(ran.disk, 201, "", 1)

\* PUT /api/posts/:slug
renamePostHandler(D, slug, newName) ==
    IF assertValidName(newName) # "" THEN Reply(D, 400, assertValidName(newName))
    ELSE LET currentDir == resolvePostDir(slug) IN
    IF currentDir = Thrown THEN Reply(D, 400, "Invalid post path")
    ELSE IF ~ensurePostDirectory(D, currentDir) THEN Reply(D, 404, "Post not found")
    ELSE LET newDir == join(POSTS_DIR, newName) IN
    IF pathExists(D, newDir) THEN Reply(D, 409, "A post with the new name already exists")
    ELSE LET renamed == rename(D, currentDir, newDir)
         IN IF renamed.err # "" THEN Caught(renamed)
            ELSE Reply(renamed.disk, 200, "")

\* DELETE /api/posts/:slug
deletePostHandler(D, slug) ==
    LET targetDir == resolvePostDir(slug) IN
    IF targetDir = Thrown THEN Reply(D, 400, "Invalid post path")
    ELSE IF ~ensurePostDirectory(D, targetDir) THEN Reply(D, 404, "Post not found")
    ELSE LET removed == remove(D, targetDir)
         IN IF removed.err # "" THEN Caught(removed)
            ELSE Reply(removed.disk, 200, "")

\* GET /api/posts/:slug/index
getIndexHandler(D, slug) ==
    LET postDir == resolvePostDir(slug) IN
    IF postDir = Thrown THEN Reply(D, 400, "Invalid post path")
    ELSE IF ~ensurePostDirectory(D, postDir) THEN Reply(D, 404, "Post not found")
    ELSE LET indexPath == join(postDir, index_md) IN
    IF ~pathExists(D, indexPath) THEN Reply(D, 404, "index.md not found")
    ELSE IF D[indexPath].type = "directory" THEN Reply(D, 500, "EISDIR")
    ELSE Reply(D, 200, "")

\* prettier.format(content, { parser: 'markdown' }): the text ends with one
\* line break, an empty text stays empty
format(content) ==
    IF Len(content) = 0 \/ content[Len(content)] = "\n" THEN content
    ELSE Append(content, "\n")

\* PUT /api/posts/:slug/index
putIndexHandler(D, slug, content) ==
    IF ~typeofString(content) THEN Reply(D, 400, "Content must be a string")
    ELSE LET postDir == resolvePostDir(slug) IN
    IF postDir = Thrown THEN Reply(D, 400, "Invalid post path")
    ELSE IF ~ensurePostDirectory(D, postDir) THEN Reply(D, 404, "Post not found")
    ELSE LET indexPath == join(postDir, index_md)
             formatted == format(content)
             written == writeFile(D, indexPath, Len(formatted))
         IN IF written.err # "" THEN Caught(written)
            ELSE Reply(written.disk, 200, "")

-----------------------------------------------------------------------------
(* Requests one after another, with the tree request and the operations on *)
(* whole posts among them.                                                 *)

TreeOfRequests(slugs) == {[slug |-> s] : s \in slugs}
CreatePostRequests(names, runs) == {[name |-> n, run |-> u] : n \in names, u \in runs}
RenamePostRequests(slugs, names) == {[slug |-> s, name |-> n] : s \in slugs, n \in names}
PutIndexRequests(slugs, contents) ==
    {[slug |-> s, content |-> c] : s \in slugs, c \in contents}

\* GET /api/posts/:slug/files is answered
Tree(requests) ==
    \E r \in requests.tree :
        LET t == treeHandler(disk, r.slug) IN
        /\ req = NoReq
        /\ req' = [op |-> "tree"] @@ r
        /\ res' = [status |-> t.status, error |-> t.error]
        /\ out' = [NoOut EXCEPT !.tree = t.tree]
        /\ UNCHANGED <<disk, pend, walk, log, editor>>

\* the response has gone out, and the log keeps the request with its status:
\* the last request first, and the one before it
Logged ==
    /\ req # NoReq
    /\ log' = <<[req |-> req, status |-> res.status]>>
                \o (IF log = <<>> THEN <<>> ELSE <<log[1]>>)
    /\ req' = NoReq
    /\ res' = NoRes
    /\ out' = NoOut
    /\ UNCHANGED <<disk, pend, walk, editor>>

\* SpecFiles: the clients make, rename, remove and list folders of the post foo
assets == <<"assets">>
media == <<"media">>
assetsMedia == <<"assets", SEP, "media">>
FilesRequests ==
    [createFolder |-> CreateFolderRequests({foo}, {<<>>, assets, assetsMedia}, {assets, media}),
     rename |-> RenameRequests({foo}, {assets, media}),
     remove |-> RemoveRequests({foo}, {assets, media, assetsMedia}),
     tree |-> TreeOfRequests({foo})]

NextFiles ==
    \/ CreateFolder(FilesRequests)
    \/ Rename(FilesRequests)
    \/ Remove(FilesRequests)
    \/ Tree(FilesRequests)
    \/ Logged

SpecFiles == Init /\ [][NextFiles]_vars

\* SpecUpload: the clients upload files of two lengths to the post foo and
\* to its folder d, again and again, and remove them
UploadAgainRequests ==
    [upload |-> UploadRequests({foo}, {<<>>, <<"d">>}, {<<"a">>}, {1, MAX_UPLOAD_SIZE}),
     remove |-> RemoveRequests({foo}, {<<"a">>, <<"d">>})]

NextUpload ==
    \/ Upload(UploadAgainRequests)
    \/ Remove(UploadAgainRequests)
    \/ Logged

SpecUpload == Init /\ [][NextUpload]_vars

\* SpecPosts: the clients create, rename and delete posts, read and save the
\* index document, and work in a post that may not exist
Runs ==
    {[event |-> "error", code |-> 1, stderr |-> "", scaffolds |-> FALSE]}
    \cup {[event |-> "close", code |-> c, stderr |-> e, scaffolds |-> c = 0] :
            c \in {0, 1}, e \in {"", "boom"}}
    \cup {[event |-> "close", code |-> c, stderr |-> "", scaffolds |-> c # 0] : c \in {0, 1}}

\* names that the guard refuses: empty, with a separator, with "..", not a string
BadNames == {<<>>, <<"a", SEP, "d">>, <<".", ".", "a">>, null, number}

\* slugs: a post, a post that does not exist, an entry inside a post (sent
\* as foo%2Fa), the posts root itself (sent as %2E)
fooEntry == <<"foo", SEP, "a">>
PostSlugs == {foo, new, fooEntry, DOT}

PostsRequests ==
    [createPost |-> CreatePostRequests({foo, new} \cup BadNames, Runs),
     renamePost |-> RenamePostRequests(PostSlugs, {foobar, new} \cup BadNames),
     deletePost |-> TreeOfRequests(PostSlugs),
     getIndex |-> TreeOfRequests({foo, new}),
     putIndex |-> PutIndexRequests({foo, new}, {<<>>, null}),
     tree |-> TreeOfRequests({foo, new}),
     upload |-> UploadRequests({new}, {<<>>, <<"d">>}, {<<"a">>}, {MAX_UPLOAD_SIZE}),
     createFolder |-> CreateFolderRequests({new}, {<<>>, <<"d">>}, {<<"a">>} \cup BadNames),
     rename |-> RenameRequests({new}, {<<"a">>, <<"d">>}),
     remove |-> RemoveRequests({new}, {<<"a">>})]

\* the content root when the server starts: the post script, the posts foo
\* (with the file a) and foobar
PostsDisk0 ==
    LET dirs == {<<SEP>>, CONTENT_ROOT, POSTS_DIR, join(POSTS_DIR, foo), join(POSTS_DIR, foobar)}
        files == {WEBSITE_SCRIPT, join(join(POSTS_DIR, foo), <<"a">>)}
    IN [p \in dirs \cup files |-> IF p \in dirs THEN DIR ELSE FILE(1)]

InitPosts ==
    /\ disk = PostsDisk0
    /\ req = NoReq
    /\ res = NoRes
    /\ pend = [c \in Clients |-> Idle]
    /\ walk = NoWalk
    /\ out = NoOut
    /\ log = <<>>
    /\ editor = NoEditor

\* POST /api/posts is answered; the script has run to its end by then
CreatePost(requests) ==
    \E r \in requests.createPost :
        LET c == createPostHandler(disk, r.name, r.run) IN
        /\ req = NoReq
        /\ Cardinality(DOMAIN c.disk) <= MaxEntries
        /\ disk' = c.disk
        /\ req' = [op |-> "create-post"] @@ r
        /\ res' = [status |-> c.status, error |-> c.error]
        /\ out' = [NoOut EXCEPT !.spawned = c.spawned]
        /\ UNCHANGED <<pend, walk, log, editor>>

RenamePost(requests) ==
    \E r \in requests.renamePost :
        Respond([op |-> "rename-post"] @@ r, renamePostHandler(disk, r.slug, r.name))

DeletePost(requests) ==
    \E r \in requests.deletePost :
        Respond([op |-> "delete-post"] @@ r, deletePostHandler(disk, r.slug))

GetIndex(requests) ==
    \E r \in requests.getIndex :
        Respond([op |-> "get-index"] @@ r, getIndexHandler(disk, r.slug))

PutIndex(requests) ==
    \E r \in requests.putIndex :
        Respond([op |-> "put-index"] @@ r, putIndexHandler(disk, r.slug, r.content))

NextPosts ==
    \/ CreatePost(PostsRequests)
    \/ RenamePost(PostsRequests)
    \/ DeletePost(PostsRequests)
    \/ GetIndex(PostsRequests)
    \/ PutIndex(PostsRequests)
    \/ Tree(PostsRequests)
    \/ Upload(PostsRequests)
    \/ CreateFolder(PostsRequests)
    \/ Rename(PostsRequests)
    \/ Remove(PostsRequests)
    \/ Sent

SpecPosts == InitPosts /\ [][NextPosts]_vars

\* SpecAbsent: the clients address the post new, which exists only after an
\* upload or a create-folder made it and until it is deleted or renamed
AbsentRequests ==
    [upload |-> UploadRequests({new}, {<<>>, <<"d">>}, {<<"a">>}, {MAX_UPLOAD_SIZE}),
     createFolder |-> CreateFolderRequests({new}, {<<>>, <<"d">>}, {<<"a">>}),
     tree |-> TreeOfRequests({new}),
     rename |-> RenameRequests({new}, {<<"a">>, <<"d">>}),
     remove |-> RemoveRequests({new}, {<<"a">>}),
     getIndex |-> TreeOfRequests({new}),
     putIndex |-> PutIndexRequests({new}, {<<>>}),
     renamePost |-> RenamePostRequests({new}, {<<"t">>}),
     deletePost |-> TreeOfRequests({new, <<"t">>})]

NextAbsent ==
    \/ Upload(AbsentRequests)
    \/ CreateFolder(AbsentRequests)
    \/ Tree(AbsentRequests)
    \/ Rename(AbsentRequests)
    \/ Remove(AbsentRequests)
    \/ GetIndex(AbsentRequests)
    \/ PutIndex(AbsentRequests)
    \/ RenamePost(AbsentRequests)
    \/ DeletePost(AbsentRequests)
    \/ Logged

SpecAbsent == InitPosts /\ [][NextAbsent]_vars

\* SpecSort: the post foo holds any of these names, as a file or as a
\* directory; a directory holds the files a and b and the directory B
SortNames == {<<"A">>, <<"a">>, <<"B">>, <<"a", ".", "md">>, <<"b", ".", "md">>}
SortKinds == [SortNames -> {"none", "file", "directory"}]

SortDisk(kind) ==
    LET post == join(POSTS_DIR, foo)
        made == {join(post, n) : n \in {x \in SortNames : kind[x] = "directory"}}
        dirs == {<<SEP>>, CONTENT_ROOT, POSTS_DIR, post} \cup made
                  \cup {join(d, <<"B">>) : d \in made}
        files == {join(post, n) : n \in {x \in SortNames : kind[x] = "file"}}
                  \cup {join(d, <<"b">>) : d \in made} \cup {join(d, <<"a">>) : d \in made}
    IN [p \in dirs \cup files |-> IF p \in dirs THEN DIR ELSE FILE(1)]

InitSort ==
    /\ disk \in {SortDisk(kind) : kind \in SortKinds}
    /\ req = NoReq
    /\ res = NoRes
    /\ pend = [c \in Clients |-> Idle]
    /\ walk = NoWalk
    /\ out = NoOut
    /\ log = <<>>
    /\ editor = NoEditor

\* the items of a directory in every order the promises of lines 63-76 can
\* hand them to the sort
Orders(entries) ==
    LET items == {[type |-> e.type, name |-> basename(e.path)] : e \in entries}
    IN {s \in [1..Cardinality(items) -> items] :
            \A i, j \in DOMAIN s : i # j => s[i] # s[j]}

\* lines 78-83: items.sort(...) for the items of the post's directory
SortListing ==
    /\ req = NoReq
    /\ \E order \in Orders(readdir(disk, join(POSTS_DIR, foo))) :
        /\ req' = [op |-> "sort", items |-> order]
        /\ out' = [NoOut EXCEPT !.tree = sort(order)]
    /\ res' = [status |-> 200, error |-> ""]
    /\ UNCHANGED <<disk, pend, walk, log, editor>>

SortRequests == [tree |-> TreeOfRequests({foo})]

NextSort ==
    \/ SortListing
    \/ Tree(SortRequests)
    \/ Sent

SpecSort == InitSort /\ [][NextSort]_vars

-----------------------------------------------------------------------------
(* POST /api/posts await by await, for clients that send it at the same    *)
(* time: the handler gives way at fse.pathExists(targetDir), at the two    *)
(* pathExists of ensureContentStructure and while the post script runs.    *)

\* a client that has sent nothing yet; spawned counts the processes its
\* handler started
IdleCreate == Idle @@ [spawned |-> 0]

\* the script cannot be started, exits with 0 after it made the post, or
\* exits with 1 with or without a word on stderr
CreateRuns ==
    {[event |-> "error", code |-> 1, stderr |-> "", scaffolds |-> FALSE],
     [event |-> "close", code |-> 0, stderr |-> "", scaffolds |-> TRUE],
     [event |-> "close", code |-> 1, stderr |-> "boom", scaffolds |-> FALSE],
     [event |-> "close", code |-> 1, stderr |-> "", scaffolds |-> TRUE]}

CreateRequests ==
    {[op |-> "create-post"] @@ r :
        r \in CreatePostRequests({foo, new, <<"a", SEP, "d">>}, CreateRuns)}

\* the post script is in place, or is missing
InitCreate ==
    /\ disk \in {PostsDisk0, [p \in DOMAIN PostsDisk0 \ {WEBSITE_SCRIPT} |-> PostsDisk0[p]]}
    /\ req = NoReq
    /\ res = NoRes
    /\ pend = [c \in Clients |-> IdleCreate]
    /\ walk = NoWalk
    /\ out = NoOut
    /\ log = <<>>
    /\ editor = NoEditor

\* the directory the post would have
PostTarget(c) == join(POSTS_DIR, pend[c].r.name)

\* lines 166-168: the request arrives, the name is tested
PostSend(c) ==
    /\ pend[c].pc = "idle"
    /\ \E r \in CreateRequests :
        /\ pend' = [pend EXCEPT
                      ![c] = IF assertValidName(r.name) # ""
                               THEN [@ EXCEPT !.r = r, !.pc = "done", !.status = 400,
                                              !.error = assertValidName(r.name)]
                             ELSE [@ EXCEPT !.r = r, !.pc = "pathExists"]]
    /\ UNCHANGED <<disk, req, res, walk, out, log, editor>>

\* create-post that goes on whether or not the post exists
PostPathExistsSkipped(c) ==
    /\ pend[c].pc = "pathExists"
    /\ Await(c, "postsDir")

\* lines 169-174: await fse.pathExists(targetDir)
PostPathExists(c) ==
    /\ pend[c].pc = "pathExists"
    /\ IF pathExists(disk, PostTarget(c))
         THEN Finish(c, disk, 409, "A post with this name already exists")
       ELSE Await(c, "postsDir")

\* lines 87-90: await fse.pathExists(POSTS_DIR)
ContentPostsDir(c) ==
    /\ pend[c].pc = "postsDir"
    /\ IF ~pathExists(disk, POSTS_DIR) THEN Finish(c, disk, 500, "Posts directory not found")
       ELSE Await(c, "script")

\* lines 91-94: await fse.pathExists(WEBSITE_SCRIPT)
ContentScript(c) ==
    /\ pend[c].pc = "script"
    /\ IF ~pathExists(disk, WEBSITE_SCRIPT)
         THEN Finish(c, disk, 500, "website.fish script not found")
       ELSE Await(c, "spawn")

\* line 108: spawn('fish', [WEBSITE_SCRIPT, 'post', name])
ScriptSpawn(c) ==
    /\ pend[c].pc = "spawn"
    /\ pend' = [pend EXCEPT ![c].pc = "running", ![c].spawned = @ + 1]
    /\ UNCHANGED <<disk, req, res, walk, out, log, editor>>

\* lines 120-132 and 177: the script has done what it does and the promise
\* settles on its error or close event
ScriptSettles(c) ==
    /\ pend[c].pc = "running"
    /\ LET ran == runWebsiteScript(disk, pend[c].r.name, pend[c].r.run)
       IN IF ran.err # "" THEN Finish(c, ran.disk, ran.status, ran.err)
          ELSE Finish(c, ran.disk, 201, "")

NextCreate ==
    \E c \in Clients :
        \/ PostSend(c)
        \/ PostPathExists(c)
        \/ ContentPostsDir(c)
        \/ ContentScript(c)
        \/ ScriptSpawn(c)
        \/ ScriptSettles(c)

SpecCreate == InitCreate /\ [][NextCreate]_vars

-----------------------------------------------------------------------------
(* Properties.  A step that answers a request has req' the request, res'   *)
(* the response, disk the disk before and disk' the disk after it.         *)

\* the directory a slug names and the entry a relative path names in it
PostDirOf(r) == join(POSTS_DIR, r.slug)
EntryOf(r, p) == join(PostDirOf(r), p)

\* the relative paths a request carries
PathsIn(r) == {r[f] : f \in DOMAIN r \cap {"source", "target", "parent"}}

\* the entries outside the subtree of root are the same in D and E
SameOutside(D, E, root) ==
    \A q \in DOMAIN D \cup DOMAIN E :
        ~isWithin(q, root) => q \in DOMAIN D /\ q \in DOMAIN E /\ D[q] = E[q]

\* the response is one of the two guards' rejections
PathTraversal(response) ==
    /\ response.status = 400
    /\ response.error \in {"Path traversal is not allowed", "Invalid post path"}

\* C1: a request on the post foo whose relative path leads into the post
\* foobar, and a request whose slug leads to a sibling of the posts root that
\* shares its name as a prefix, is rejected with PathTraversal and changes
\* nothing.
C1_NoSiblingAccess ==
    [][req' # NoReq =>
        LET intoFoobar ==
                /\ req'.slug = foo
                /\ \E p \in PathsIn(req') : isWithin(EntryOf(req', p), join(POSTS_DIR, foobar))
            besidePosts ==
                /\ ~isWithin(PostDirOf(req'), POSTS_DIR)
                /\ startsWith(PostDirOf(req'), POSTS_DIR)
        IN intoFoobar \/ besidePosts => PathTraversal(res') /\ disk' = disk]_vars

\* C2: a request whose slug leaves the posts root, or whose relative path
\* leaves the post's directory, fails with status 400 and leaves every entry
\* outside that root as it was.
C2_EscapeRejected ==
    [][req' # NoReq =>
        LET slugEscapes == ~isWithin(PostDirOf(req'), POSTS_DIR)
            pathEscapes ==
                \E p \in PathsIn(req') : ~isWithin(EntryOf(req', p), PostDirOf(req'))
            root == IF slugEscapes THEN POSTS_DIR ELSE PostDirOf(req')
        IN slugEscapes \/ pathEscapes =>
               PathTraversal(res') /\ SameOutside(disk, disk', root)]_vars

\* a rename request that names both paths, on a post that exists, with both
\* paths inside the post
RenameAdmitted(D, r) ==
    /\ r.op = "rename"
    /\ Len(r.source) > 0 /\ Len(r.target) > 0
    /\ isWithin(PostDirOf(r), POSTS_DIR)
    /\ PostDirOf(r) \in DOMAIN D
    /\ isWithin(EntryOf(r, r.source), PostDirOf(r))
    /\ isWithin(EntryOf(r, r.target), PostDirOf(r))

\* C3: a rename whose target exists, file or directory, the source itself
\* included, fails with 409 'Target already exists' and leaves the disk, so
\* the source subtree and the target, exactly as it was.
C3_RenameOntoExisting ==
    [][(RenameAdmitted(disk, req') /\ EntryOf(req', req'.target) \in DOMAIN disk) =>
          (res'.status = 409 /\ res'.error = "Target already exists" /\ disk' = disk)]_vars

\* C3 happens: a rename of an existing entry onto itself was refused with 409
C3_Witness ==
    /\ req.op = "rename"
    /\ req.source = req.target
    /\ EntryOf(req, req.source) \in DOMAIN disk
    /\ res.status = 409

\* C4: a rename whose source does not exist (and whose target is free) fails
\* with 404, the status of a missing post, and leaves the disk as it was.
C4_RenameMissingSource ==
    [][(/\ RenameAdmitted(disk, req')
        /\ EntryOf(req', req'.source) \notin DOMAIN disk
        /\ EntryOf(req', req'.target) \notin DOMAIN disk) =>
          (res'.status = 404 /\ disk' = disk)]_vars

\* C7: an upload or create-folder that is answered with PathTraversal has
\* done no I/O: the disk is as before, no post directory was created.
C7_RejectedBeforeIO ==
    [][(req'.op \in {"upload", "create-folder"} /\ PathTraversal(res')) =>
          disk' = disk]_vars

\* an upload whose slug and target name an existing directory of the post,
\* with a plain file name that is not the name of a directory there
UploadPlain(D, r) ==
    /\ r.op = "upload"
    /\ isWithin(PostDirOf(r), POSTS_DIR)
    /\ isWithin(EntryOf(r, r.target), PostDirOf(r))
    /\ EntryOf(r, r.target) \in DOMAIN D
    /\ D[EntryOf(r, r.target)].type = "directory"
    /\ ~includes(r.fileName, <<SEP>>) /\ r.fileName \notin {<<>>, DOT, DOTDOT}
    /\ LET filePath == join(EntryOf(r, r.target), r.fileName)
       IN filePath \in DOMAIN D => D[filePath].type = "file"

C9_UploadStaysInTargetDir ==
    [][req'.op = "upload" =>
        \A q \in DOMAIN disk' :
            (disk'[q].type = "file" /\ (q \notin DOMAIN disk \/ disk[q] # disk'[q])) =>
                /\ res'.status = 201
                /\ dirname(q) = EntryOf(req', req'.target)
                /\ isWithin(q, PostDirOf(req'))]_vars

\* C9 happens: an upload whose filename has a directory part was written
C9_Witness ==
    /\ req.op = "upload"
    /\ includes(req.fileName, <<SEP>>)
    /\ includes(req.fileName, DOTDOT)
    /\ res.status = 201
    /\ req.target # <<>>
    /\ join(EntryOf(req, req.target), basename(req.fileName)) \in DOMAIN disk

\* the disk the racing requests find
RaceDisk0 == uploadHandler(Disk0, foo, <<>>, <<"d">>, MAX_UPLOAD_SIZE).disk

\* the path client c's request creates
Destination(c) == IF pend[c].r.op = "rename" THEN MoveDest(c) ELSE FolderPath(c)

Succeeded(c) == pend[c].status \in {200, 201}

\* c and o have their responses to two requests of one kind (two renames,
\* two create-folders) for one destination that was absent before both
Collide(c, o) ==
    /\ c # o
    /\ pend[c].pc = "done" /\ pend[o].pc = "done"
    /\ pend[c].r.op = pend[o].r.op
    /\ Destination(c) = Destination(o)
    /\ Destination(c) \notin DOMAIN RaceDisk0

\* C5, as claimed: of two requests that race for one absent destination, when
\* one reports success the other reports 409, however their steps interleave.
C5_CollisionsReported ==
    \A c, o \in Clients : (Collide(c, o) /\ Succeeded(c)) => pend[o].status = 409

\* C5, amended: when the first of the two requests had its response before
\* the second was sent, the second reports 409 if the first succeeded, so at
\* most one of them succeeds.
C5_CollisionsReportedInTurn ==
    \A c, o \in Clients :
        (Collide(c, o) /\ c \in pend[o].after /\ Succeeded(c)) =>
            /\ pend[o].status = 409
            /\ pend[o].error \in {"Target already exists", "Folder already exists"}

\* C5 happens: a rename succeeded, and a second rename to the same target,
\* sent after it, was refused
C5_Witness ==
    \E c, o \in Clients :
        /\ Collide(c, o) /\ c \in pend[o].after /\ Succeeded(c)
        /\ pend[o].r.op = "rename"
        /\ pend[o].status = 409

\* C6: a tree request on a post that exists ends with the tree (status 200),
\* whatever entries other requests remove while it is built.
C6_TreeToleratesRemoval ==
    (walk.pc = "done" /\ TreePost \in DOMAIN disk) => walk.status = 200

\* the entries of D in the subtree of src
Subtree(D, src) == {x \in DOMAIN D : isWithin(x, src)}

\* the rename moved exactly the subtree of src to dest, and made the
\* directories in made
Relocated(D, E, src, dest, made) ==
    /\ DOMAIN E = (DOMAIN D \ Subtree(D, src))
                    \cup {relocate(x, src, dest) : x \in Subtree(D, src)} \cup made
    /\ \A x \in Subtree(D, src) : E[relocate(x, src, dest)] = D[x]
    /\ \A q \in DOMAIN D \ Subtree(D, src) : E[q] = D[q]
    /\ \A q \in made \ DOMAIN D : E[q] = DIR

\* C10, as claimed: a rename of a present source to an absent target of the
\* same post succeeds and relocates exactly the source subtree; no other
\* entry is created or removed.
C10_RenameRelocates ==
    [][(/\ RenameAdmitted(disk, req')
        /\ EntryOf(req', req'.source) \in DOMAIN disk
        /\ EntryOf(req', req'.target) \notin DOMAIN disk) =>
          /\ res'.status = 200
          /\ Relocated(disk, disk', EntryOf(req', req'.source), EntryOf(req', req'.target), {})]_vars

\* C10, amended: provided the target is not inside the source and no
\* component of the target path is a file, the rename succeeds and relocates
\* exactly the source subtree; no other entry changes, except that the
\* missing directories above the target are created.
C10_RenameRelocatesAmended ==
    [][(/\ RenameAdmitted(disk, req')
        /\ EntryOf(req', req'.source) \in DOMAIN disk
        /\ EntryOf(req', req'.target) \notin DOMAIN disk
        /\ ~isWithin(EntryOf(req', req'.target), EntryOf(req', req'.source))
        /\ ~underFile(disk, EntryOf(req', req'.target))) =>
          /\ res'.status = 200
          /\ Relocated(disk, disk', EntryOf(req', req'.source), EntryOf(req', req'.target),
                       ancestors(dirname(EntryOf(req', req'.target))) \ DOMAIN disk)]_vars

\* C10 happens: a directory with an entry in it was renamed to a path under
\* another parent
C10_Witness ==
    /\ req.op = "rename"
    /\ res.status = 200
    /\ dirname(EntryOf(req, req.source)) # dirname(EntryOf(req, req.target))
    /\ disk[EntryOf(req, req.target)].type = "directory"
    /\ \E q \in DOMAIN disk : q # EntryOf(req, req.target) /\ isWithin(q, EntryOf(req, req.target))

\* the name in lower case
toLowerCase(name) == [i \in DOMAIN name |-> Collation[primary(name[i])][1]]

\* a is not after b once both are in lower case
CaseInsensitiveLE(a, b) == compareCodeUnits(toLowerCase(a), toLowerCase(b)) <= 0

\* at this level and at every level below, directories come before files
\* and the names of one type ascend without regard to case
RECURSIVE SortedItems(_)
SortedItems(items) ==
    /\ \A i \in 1..(Len(items) - 1) :
        /\ items[i].type = "file" => items[i + 1].type = "file"
        /\ items[i].type = items[i + 1].type =>
              CaseInsensitiveLE(items[i].name, items[i + 1].name)
    /\ \A i \in DOMAIN items :
        "children" \in DOMAIN items[i] => SortedItems(items[i].children)

\* C14: the items the tree lists are sorted at every level, directories
\* before files and names case-insensitively ascending within a type, in
\* whatever order the entries reached the sort; the sort loses no item.
C14_TreeSorted ==
    (req.op \in {"sort", "tree"} /\ res.status = 200) =>
        /\ SortedItems(out.tree)
        /\ req.op = "sort" =>
              {out.tree[i] : i \in DOMAIN out.tree} = {req.items[i] : i \in DOMAIN req.items}
                 /\ Len(out.tree) = Len(req.items)

\* C14 happens: b.md, A (a directory) and a.md came out as A, a.md, b.md
C14_Witness ==
    /\ req.op = "sort"
    /\ req.items = <<[type |-> "file", name |-> <<"b", ".", "md">>],
                     [type |-> "directory", name |-> <<"A">>],
                     [type |-> "file", name |-> <<"a", ".", "md">>]>>
    /\ [i \in DOMAIN out.tree |-> out.tree[i].name]
         = << <<"A">>, <<"a", ".", "md">>, <<"b", ".", "md">> >>

\* C11: a create-folder that follows a successful create-folder of the same
\* parent and name, with no request between them, fails with 409 'Folder
\* already exists' and leaves the disk as the first one left it.
C11_CreateDirectoryTwice ==
    [][(/\ req'.op = "create-folder"
        /\ log # <<>>
        /\ log[1].req = req'
        /\ log[1].status = 201) =>
          (res'.status = 409 /\ res'.error = "Folder already exists" /\ disk' = disk)]_vars

\* C11 happens: a folder inside a folder was created, and the same request,
\* sent again, was refused
C11_Witness ==
    /\ req.op = "create-folder"
    /\ req.parent # <<>>
    /\ res.status = 409
    /\ log # <<>>
    /\ log[1].req = req
    /\ log[1].status = 201

\* the paths of the nodes of a tree, at every level
RECURSIVE pathsOf(_)
pathsOf(items) ==
    UNION {{items[i].path} \cup pathsOf(items[i].children) : i \in DOMAIN items}

\* C12: the tree that follows a successful remove, with no request between
\* them, lists neither the removed path nor any path below it.
C12_RemovedNotListed ==
    [][(/\ req'.op = "tree"
        /\ res'.status = 200
        /\ log # <<>>
        /\ log[1].req.op = "remove"
        /\ log[1].req.slug = req'.slug
        /\ log[1].status = 200) =>
          \A q \in pathsOf(out'.tree) : ~isWithin(q, normalize(log[1].req.target))]_vars

\* C12 happens: a folder was made two levels below assets, assets was
\* removed, and the tree was listed
C12_Witness ==
    /\ req.op = "tree"
    /\ res.status = 200
    /\ Len(log) = 2
    /\ log[1].req.op = "remove" /\ log[1].req.target = assets /\ log[1].status = 200
    /\ log[2].req.op = "create-folder" /\ log[2].req.parent = assetsMedia
    /\ log[2].status = 201

\* C13: after create-folder of assets at the root of a post and rename of
\* assets to media, both successful and with no request between them, the
\* tree lists one entry named media, a directory with path media and no
\* children, and no entry named assets.
C13_CreateRenameTree ==
    [][(/\ req'.op = "tree"
        /\ Len(log) = 2
        /\ log[2].req = [op |-> "create-folder", slug |-> req'.slug,
                         parent |-> <<>>, name |-> assets]
        /\ log[2].status = 201
        /\ log[1].req = [op |-> "rename", slug |-> req'.slug,
                         source |-> assets, target |-> media]
        /\ log[1].status = 200) =>
          /\ res'.status = 200
          /\ \E i \in DOMAIN out'.tree :
              /\ out'.tree[i] = [type |-> "directory", name |-> media, path |-> media,
                                 size |-> 0, children |-> <<>>]
              /\ \A j \in DOMAIN out'.tree : out'.tree[j].name = media => j = i
          /\ \A i \in DOMAIN out'.tree : out'.tree[i].name # assets]_vars

\* C13 happens: the tree was listed after the two requests, beside the file
\* the post held before
C13_Witness ==
    /\ req.op = "tree"
    /\ res.status = 200
    /\ Len(log) = 2
    /\ log[2].req.op = "create-folder" /\ log[2].req.parent = <<>>
    /\ log[2].req.name = assets /\ log[2].status = 201
    /\ log[1].req.op = "rename" /\ log[1].req.source = assets
    /\ log[1].req.target = media /\ log[1].status = 200
    /\ Len(out.tree) = 2

\* C15: an upload to a directory of the post where a file of that name
\* exists succeeds; afterwards the file is the uploaded one, and the disk
\* holds the same entries as before, all others unchanged.
C15_UploadOverwrites ==
    [][(/\ UploadPlain(disk, req')
        /\ req'.size <= MAX_UPLOAD_SIZE
        /\ join(EntryOf(req', req'.target), req'.fileName) \in DOMAIN disk) =>
          LET filePath == join(EntryOf(req', req'.target), req'.fileName)
          IN /\ res'.status = 201
             /\ DOMAIN disk' = DOMAIN disk
             /\ disk'[filePath] = FILE(req'.size)
             /\ \A q \in DOMAIN disk \ {filePath} : disk'[q] = disk[q]]_vars

\* C15 happens: a file of one byte was uploaded into the folder d, and then
\* a file of another length under the same name
C15_Witness ==
    /\ req.op = "upload"
    /\ req.target = <<"d">>
    /\ req.size = MAX_UPLOAD_SIZE
    /\ res.status = 201
    /\ log # <<>>
    /\ log[1].req = [req EXCEPT !.size = 1]
    /\ log[1].status = 201
    /\ disk[join(EntryOf(req, req.target), req.fileName)] = FILE(MAX_UPLOAD_SIZE)

\* the request is complete: it names what its handler asks for before it
\* looks at the post, and its paths stay inside the post
WellFormed(r) ==
    /\ isWithin(PostDirOf(r), POSTS_DIR)
    /\ \A p \in PathsIn(r) : isWithin(EntryOf(r, p), PostDirOf(r))
    /\ r.op \in {"rename", "remove"} => \A p \in PathsIn(r) : Len(p) > 0
    /\ r.op \in {"create-folder", "rename-post"} => assertValidName(r.name) = ""
    /\ r.op = "put-index" => typeofString(r.content)
    /\ r.op = "upload" =>
          r.size <= MAX_UPLOAD_SIZE /\ originalname(r.fileName) = r.fileName

\* C16: when the directory of the addressed post does not exist, upload and
\* create-folder make it, with the target directory, and succeed; tree,
\* rename, remove, reading and saving the index, rename-post and delete-post
\* fail with 404 and leave the disk unchanged.
C16_TolerantCreate ==
    [][(/\ req'.op \in {"upload", "create-folder", "tree", "rename", "remove",
                        "get-index", "put-index", "rename-post", "delete-post"}
        /\ WellFormed(req')
        /\ PostDirOf(req') \notin DOMAIN disk) =>
          /\ req'.op = "upload" =>
                /\ res'.status = 201
                /\ PostDirOf(req') \in DOMAIN disk'
                /\ EntryOf(req', req'.target) \in DOMAIN disk'
                /\ disk'[EntryOf(req', req'.target)] = DIR
                /\ disk'[join(EntryOf(req', req'.target), req'.fileName)] = FILE(req'.size)
          /\ req'.op = "create-folder" =>
                /\ res'.status = 201
                /\ PostDirOf(req') \in DOMAIN disk'
                /\ disk'[join(EntryOf(req', req'.parent), req'.name)] = DIR
          /\ req'.op \notin {"upload", "create-folder"} =>
                /\ res'.status = 404
                /\ res'.error = "Post not found"
                /\ disk' = disk]_vars

\* C16 happens: the post new was deleted, and the upload that followed made
\* it again, with the folder d and the file in it
C16_Witness ==
    /\ req.op = "upload"
    /\ req.target = <<"d">>
    /\ res.status = 201
    /\ log # <<>>
    /\ log[1].req.op = "delete-post" /\ log[1].req.slug = req.slug /\ log[1].status = 200
    /\ disk[join(EntryOf(req, req.target), req.fileName)] = FILE(req.size)

\* a name the simple-name guard is to refuse: not a string, empty, with a
\* path separator or with two dots in a row
NotSimple(name) ==
    \/ name \in {null, number}
    \/ Len(name) = 0
    \/ \E i \in DOMAIN name : name[i] = SEP
    \/ \E i \in 1..(Len(name) - 1) : name[i] = "." /\ name[i + 1] = "."

\* C17: create-post, rename-post and create-folder with such a name fail
\* with 400 (InvalidName) whether or not the post or the name exists; the
\* disk is unchanged and the post script is not started.
C17_SimpleNameGuard ==
    [][(req'.op \in {"create-post", "rename-post", "create-folder"}
        /\ NotSimple(req'.name)) =>
          /\ res'.status = 400
          /\ res'.error \in {"Invalid name", "Name is required"}
          /\ disk' = disk
          /\ out'.spawned = 0]_vars

\* C17 happens: a rename-post of a post that does not exist to a name with a
\* separator was refused for the name
C17_Witness ==
    /\ req.op = "rename-post"
    /\ PostDirOf(req) \notin DOMAIN disk
    /\ req.name = <<"a", SEP, "d">>
    /\ res.status = 400
    /\ res.error = "Invalid name"

\* the directory client c's request would make
PostOf(c) == join(POSTS_DIR, pend[c].r.name)

\* C18: a create-post request tests the name, then looks for the post, then
\* starts the post script.  The script is started at most once, by a handler
\* that found the name simple and went on from its look for the post at a
\* moment when no entry of that name existed; the handler that finds the post
\* answers 409, starts nothing and changes nothing.
C18_CreatePostOrder ==
    [][\A c \in Clients :
        /\ pend'[c].spawned <= 1
        /\ pend'[c].spawned # pend[c].spawned =>
              pend[c].pc = "spawn" /\ ~NotSimple(pend[c].r.name)
        /\ pend'[c].pc = "postsDir" /\ pend[c].pc # "postsDir" =>
              pend[c].pc = "pathExists" /\ PostOf(c) \notin DOMAIN disk
        /\ pend'[c].pc = "script" /\ pend[c].pc # "script" => pend[c].pc = "postsDir"
        /\ pend'[c].pc = "spawn" /\ pend[c].pc # "spawn" => pend[c].pc = "script"
        /\ (pend[c].pc = "pathExists" /\ pend'[c] # pend[c] /\ PostOf(c) \in DOMAIN disk) =>
              /\ pend'[c].pc = "done"
              /\ pend'[c].status = 409
              /\ pend'[c].spawned = 0
              /\ disk' = disk]_vars

\* C18 happens: one client's script has made the post, and the other
\* client's request for the same name was refused without a script
C18_Witness ==
    \E c, o \in Clients :
        /\ pend[c].pc = "done" /\ pend[c].status = 201 /\ pend[c].spawned = 1
        /\ pend[o].pc = "done" /\ pend[o].status = 409 /\ pend[o].spawned = 0
        /\ pend[o].r.name = pend[c].r.name

\* the post script of client c exited with a code other than 0
ExitedNonZero(c) == pend[c].r.run.event = "close" /\ pend[c].r.run.code # 0

\* the script's stderr as it is
Verbatim(run) == run.stderr

\* the script's stderr, and the handler's own words when stderr is empty
VerbatimOrDefault(run) == IF run.stderr # "" THEN run.stderr ELSE "Failed to create post"

\* create-post and the script's exit: 201 exactly for the exit code 0, 500
\* with the message for any other, and the disk changed by the script alone
ExitDecides(verbatim) ==
    \A c \in Clients :
        /\ (pend'[c].status = 201 /\ pend[c].status # 201) => pend[c].pc = "running"
        /\ (pend[c].pc = "running" /\ pend'[c].pc = "done") =>
              /\ pend'[c].status = 201 <=>
                    (pend[c].r.run.event = "close" /\ pend[c].r.run.code = 0)
              /\ ExitedNonZero(c) =>
                    /\ pend'[c].status = 500
                    /\ pend'[c].error = IF verbatim THEN Verbatim(pend[c].r.run)
                                        ELSE VerbatimOrDefault(pend[c].r.run)
              /\ disk' = IF pend[c].r.run.event = "close" /\ pend[c].r.run.scaffolds
                           THEN scaffold(disk, pend[c].r.name) ELSE disk
        /\ (pend'[c] # pend[c] /\ pend[c].pc # "running") => disk' = disk

\* C19, as claimed: create-post answers 201 exactly when the script exits
\* with 0; on any other exit it fails with the script's stderr as the
\* message; the handler itself changes nothing on the disk.
C19_ExitCodeDecides == [][ExitDecides(TRUE)]_vars

\* C19, amended: as claimed, except that the message is 'Failed to create
\* post' when the script wrote nothing to stderr.
C19_ExitCodeDecidesAmended == [][ExitDecides(FALSE)]_vars

\* C19 happens: the script exited with 1 and its stderr is the message
C19_Witness ==
    \E c \in Clients :
        /\ pend[c].pc = "done" /\ pend[c].spawned = 1
        /\ ExitedNonZero(c)
        /\ pend[c].status = 500
        /\ pend[c].error = "boom"

\* the posts of a disk: the names of the first-level directories of POSTS_DIR
Posts(D) ==
    {basename(p) : p \in {q \in DOMAIN D : /\ q # <<SEP>>
                                            /\ dirname(q) = POSTS_DIR
                                            /\ D[q].type = "directory"}}

\* a post with everything in it, by paths relative to the post
PostContents(D, name) ==
    LET dir == join(POSTS_DIR, name)
    IN [q \in {SubSeq(p, Len(dir) + 1, Len(p)) : p \in {e \in DOMAIN D : isWithin(e, dir)}}
          |-> D[dir \o q]]

\* every post but those named is what it was
OtherPostsUnchanged(named) ==
    \A t \in Posts(disk) \ named :
        t \in Posts(disk') /\ PostContents(disk', t) = PostContents(disk, t)

\* C20: rename-post and delete-post of a post that does not exist answer
\* 404 Not Found, rename-post to the name of an existing post answers 409,
\* both leaving the disk as it was; otherwise the post with all its contents
\* is found under the new name only, or under none, and every other post is
\* unchanged.
C20_PostRenameDelete ==
    [][(/\ req = NoReq
        /\ req'.op \in {"rename-post", "delete-post"}
        /\ req'.op = "rename-post" => assertValidName(req'.name) = "")
       => IF req'.slug \notin Posts(disk)
            THEN res'.status = 404 /\ disk' = disk
          ELSE IF req'.op = "delete-post"
            THEN /\ res'.status = 200
                 /\ Posts(disk') = Posts(disk) \ {req'.slug}
                 /\ OtherPostsUnchanged({req'.slug})
          ELSE IF req'.name \in Posts(disk)
            THEN res'.status = 409 /\ disk' = disk
          ELSE /\ res'.status = 200
               /\ Posts(disk') = (Posts(disk) \ {req'.slug}) \cup {req'.name}
               /\ PostContents(disk', req'.name) = PostContents(disk, req'.slug)
               /\ OtherPostsUnchanged({req'.slug})]_vars

-----------------------------------------------------------------------------
(* The list of posts. The entries of the disk carry their modification     *)
(* time here: a write stamps the file, a change of a directory's entries   *)
(* stamps the directory, a moved entry keeps its time.                     *)

\* the latest time a run reaches
MaxTime == 3

\* the clock: later than every modification time on the disk
now(D) ==
    LET times == {D[p].mtime : p \in DOMAIN D}
    IN 1 + CHOOSE t \in times : \A u \in times : u <= t

\* the names of the entries of a directory
names(D, dir) == {basename(e.path) : e \in readdir(D, dir)}

\* the disk E that a handler leaves from the disk D, with the times the file
\* system gives: t to what was written or made and to every directory whose
\* entries changed
stamp(D, E, t) ==
    [p \in DOMAIN E |->
        IF "mtime" \notin DOMAIN E[p] THEN E[p] @@ [mtime |-> t]
        ELSE IF p \in DOMAIN D /\ names(D, p) # names(E, p) THEN [E[p] EXCEPT !.mtime = t]
        ELSE E[p]]

\* a handler's result with the times on its disk
stamped(D, r) == [r EXCEPT !.disk = stamp(D, r.disk, now(D))]

\* fs.stat(p).mtime
mtime(D, p) == D[p].mtime

\* posts.sort((a, b) => new Date(b.modifiedAt) - new Date(a.modifiedAt)):
\* one summary put in its place, after those that are not older
RECURSIVE insertPost(_, _)
insertPost(sorted, post) ==
    IF sorted = <<>> THEN <<post>>
    ELSE IF sorted[Len(sorted)].modifiedAt >= post.modifiedAt THEN Append(sorted, post)
    ELSE Append(insertPost(SubSeq(sorted, 1, Len(sorted) - 1), post), sorted[Len(sorted)])

RECURSIVE sortPosts(_, _)
sortPosts(posts, i) ==
    IF i = 0 THEN <<>> ELSE insertPost(sortPosts(posts, i - 1), posts[i])

\* lines 140-155: the summary of one directory of POSTS_DIR
summary(D, entry) ==
    LET dirPath == join(POSTS_DIR, basename(entry.path))
        indexPath == join(dirPath, index_md)
        indexStats == pathExists(D, indexPath)
    IN [name |-> basename(entry.path),
        slug |-> basename(entry.path),
        hasIndex |-> indexStats,
        modifiedAt |-> IF indexStats THEN mtime(D, indexPath) ELSE mtime(D, dirPath)]

\* GET /api/posts
listPostsHandler(D) ==
    IF ensureContentStructure(D) # ""
      THEN Reply(D, 500, ensureContentStructure(D)) @@ [posts |-> <<>>]
    ELSE IF D[POSTS_DIR].type # "directory"
      THEN Reply(D, 500, "ENOTDIR") @@ [posts |-> <<>>]
    ELSE LET entries == listing({e \in readdir(D, POSTS_DIR) : e.type = "directory"})
             posts == [i \in DOMAIN entries |-> summary(D, entries[i])]
         IN Reply(D, 200, "") @@ [posts |-> sortPosts(posts, Len(posts))]

\* the content root when the server starts: PostsDisk0 and a file left in
\* POSTS_DIR, all of time 0
ListDisk0 ==
    LET D == PostsDisk0 @@ (join(POSTS_DIR, <<"a">>) :> FILE(1))
    IN [p \in DOMAIN D |-> D[p] @@ [mtime |-> 0]]

ListRequests ==
    [createPost |-> CreatePostRequests({new},
                       {[event |-> "close", code |-> 0, stderr |-> "", scaffolds |-> TRUE]}),
     deletePost |-> TreeOfRequests({foo}),
     putIndex |-> PutIndexRequests({foo, foobar}, {<<"a">>}),
     createFolder |-> CreateFolderRequests({foobar}, {<<>>}, {index_md, <<"d">>}),
     remove |-> RemoveRequests({foo, foobar}, {index_md, <<"a">>})]

InitList ==
    /\ disk = ListDisk0
    /\ req = NoReq
    /\ res = NoRes
    /\ pend = [c \in Clients |-> Idle]
    /\ walk = NoWalk
    /\ out = NoOut
    /\ log = <<>>
    /\ editor = NoEditor

\* a request that writes is answered; the clock stops at MaxTime
Writes(request, r) ==
    /\ now(disk) <= MaxTime
    /\ Respond(request, stamped(disk, r))

ListWrite ==
    \/ \E r \in ListRequests.createPost :
         Writes([op |-> "create-post"] @@ r, createPostHandler(disk, r.name, r.run))
    \/ \E r \in ListRequests.deletePost :
         Writes([op |-> "delete-post"] @@ r, deletePostHandler(disk, r.slug))
    \/ \E r \in ListRequests.putIndex :
         Writes([op |-> "put-index"] @@ r, putIndexHandler(disk, r.slug, r.content))
    \/ \E r \in ListRequests.createFolder :
         Writes([op |-> "create-folder"] @@ r,
                createFolderHandler(disk, r.slug, r.parent, r.name))
    \/ \E r \in ListRequests.remove :
         Writes([op |-> "remove"] @@ r, removeHandler(disk, r.slug, r.target))

\* GET /api/posts is answered
ListPosts ==
    LET r == listPostsHandler(disk) IN
    /\ req = NoReq
    /\ req' = [op |-> "list-posts"]
    /\ res' = [status |-> r.status, error |-> r.error]
    /\ out' = [posts |-> r.posts] @@ NoOut
    /\ UNCHANGED <<disk, pend, walk, log, editor>>

NextList ==
    \/ ListWrite
    \/ ListPosts
    \/ Sent

SpecList == InitList /\ [][NextList]_vars

\* the first-level directories of POSTS_DIR
PostDirs(D) == {p \in DOMAIN D : /\ p # <<SEP>>
                                  /\ dirname(p) = POSTS_DIR
                                  /\ D[p].type = "directory"}

\* the index document of a post, if it has one
IndexDocument(D, dir) ==
    LET p == join(dir, index_md)
    IN IF p \in DOMAIN D /\ D[p].type = "file" THEN {p} ELSE {}

\* the summary that is due to a post
PostSummary(D, dir) ==
    [name |-> basename(dir),
     slug |-> basename(dir),
     hasIndex |-> IndexDocument(D, dir) # {},
     modifiedAt |-> IF IndexDocument(D, dir) # {}
                      THEN D[join(dir, index_md)].mtime ELSE D[dir].mtime]

\* C21: the list of posts succeeds and holds exactly one summary for each
\* first-level directory of the posts root, none for a first-level file, with
\* name = slug = the directory's name, hasIndex true iff the directory holds
\* an index document, and modifiedAt the document's time when there is one
\* and the directory's own otherwise.
C21_ListPosts ==
    (req.op = "list-posts") =>
        /\ res.status = 200
        /\ Len(out.posts) = Cardinality(PostDirs(disk))
        /\ {out.posts[i] : i \in DOMAIN out.posts} = {PostSummary(disk, d) : d \in PostDirs(disk)}

-----------------------------------------------------------------------------
(* POST /api/deploy, await by await: git add, git commit and git push are  *)
(* processes outside the server; each exits with a code, what it wrote on  *)
(* stderr, and, for the commit, whether it found nothing to commit.        *)

\* path.resolve(process.env.HOME || '/home/zimengx', 'Code/hugoSite')
hugoSiteDir == <<SEP, "home", SEP, "zimengx", SEP, "Code", SEP, "hugoSite">>

\* a deploy request not yet received: the processes started, those that exited
IdleDeploy == Idle @@ [started |-> <<>>, exited |-> <<>>]

\* req.body.message: missing, not a string, a message, a blank message
DeployRequests ==
    {[op |-> "deploy", message |-> m] : m \in {<<>>, null, <<"m">>, <<" ">>}}

\* how git ends: 0; 1 from a commit that found nothing to commit; 1 from a
\* commit that failed (a hook refused it, the message was blank); 128
GitExits(step) ==
    {[step |-> step, code |-> 0, stderr |-> "", nothing |-> FALSE]}
    \cup {[step |-> step, code |-> c, stderr |-> "fatal", nothing |-> FALSE] : c \in {1, 128}}
    \cup IF step = "commit"
           THEN {[step |-> step, code |-> 1, stderr |-> "", nothing |-> TRUE]}
           ELSE {}

\* the site's repository is there, or is not
InitDeploy ==
    /\ disk \in {PostsDisk0, ensureDir(PostsDisk0, hugoSiteDir).disk}
    /\ req = NoReq
    /\ res = NoRes
    /\ pend = [c \in Clients |-> IdleDeploy]
    /\ walk = NoWalk
    /\ out = NoOut
    /\ log = <<>>
    /\ editor = NoEditor

\* spawn('git', ...): the process of the step is started
spawnGit(c, step) ==
    /\ pend' = [pend EXCEPT ![c].pc = step, ![c].started = Append(@, step)]
    /\ UNCHANGED <<disk, req, res, walk, out, log, editor>>

\* the close event of a step: the exit is kept, and the promise is rejected
\* with the message, or resolved and the next step is started
gitCloses(c, exit, rejected, next) ==
    /\ pend' = [pend EXCEPT
                  ![c] = IF rejected
                           THEN [@ EXCEPT !.pc = "done", !.status = 500,
                                          !.error = "git " \o exit.step \o " failed: "
                                                    \o exit.stderr,
                                          !.exited = Append(@, exit)]
                         ELSE IF next = "done"
                           THEN [@ EXCEPT !.pc = "done", !.status = 200,
                                          !.exited = Append(@, exit)]
                         ELSE [@ EXCEPT !.pc = next, !.started = Append(@, next),
                                        !.exited = Append(@, exit)]]
    /\ UNCHANGED <<disk, req, res, walk, out, log, editor>>

\* lines 358-363: the request arrives, the message is tested
DeploySend(c) ==
    /\ pend[c].pc = "idle"
    /\ \E r \in DeployRequests :
        /\ pend' = [pend EXCEPT
                      ![c] = IF Len(r.message) = 0 \/ ~typeofString(r.message)
                               THEN [@ EXCEPT !.r = r, !.pc = "done", !.status = 400,
                                              !.error = "Commit message is required"]
                             ELSE [@ EXCEPT !.r = r, !.pc = "pathExists"]]
        /\ UNCHANGED <<disk, req, res, walk, out, log, editor>>

\* lines 366-371: await fse.pathExists(hugoSiteDir); line 375: git add .
DeployPathExists(c) ==
    /\ pend[c].pc = "pathExists"
    /\ IF ~pathExists(disk, hugoSiteDir)
         THEN Finish(c, disk, 404, "Hugo site directory not found")
         ELSE spawnGit(c, "add")

\* lines 378-384: git add closes; line 389: git commit -am message
GitAddCloses(c) ==
    /\ pend[c].pc = "add"
    /\ \E exit \in GitExits("add") : gitCloses(c, exit, exit.code # 0, "commit")

\* lines 394-401: git commit closes; line 406: git push
GitCommitCloses(c) ==
    /\ pend[c].pc = "commit"
    /\ \E exit \in GitExits("commit") :
         gitCloses(c, exit, exit.code # 0 /\ exit.code # 1, "push")

\* lines 411-417: git push closes; line 420: 'Deployed successfully'
GitPushCloses(c) ==
    /\ pend[c].pc = "push"
    /\ \E exit \in GitExits("push") : gitCloses(c, exit, exit.code # 0, "done")

\* the response has gone out
DeploySent(c) ==
    /\ pend[c].pc = "done"
    /\ pend' = [pend EXCEPT ![c] = IdleDeploy]
    /\ UNCHANGED <<disk, req, res, walk, out, log, editor>>

NextDeploy ==
    \E c \in Clients :
        \/ DeploySend(c)
        \/ DeployPathExists(c)
        \/ GitAddCloses(c)
        \/ GitCommitCloses(c)
        \/ GitPushCloses(c)
        \/ DeploySent(c)

SpecDeploy == InitDeploy /\ [][NextDeploy]_vars

\* the steps of a deploy
Steps == <<"add", "commit", "push">>

\* an exit that is a failure: not zero, and not a commit with nothing to commit
Fatal(exit) == exit.code # 0 /\ ~exit.nothing

\* C22: the steps of a deploy are started in the order add, commit, push,
\* each after the one before it has exited; a commit that exits with nothing
\* to commit does not fail the request; after any other non-zero exit no
\* step is started and the request fails; 'Deployed successfully' (200) is
\* answered only after push has exited with zero.
C22_DeploySteps ==
    \A c \in Clients :
        LET d == pend[c] IN
        /\ Len(d.started) <= Len(Steps)
        /\ d.started = SubSeq(Steps, 1, Len(d.started))
        /\ Len(d.exited) \in {Len(d.started) - 1, Len(d.started)}
        /\ \A i \in DOMAIN d.exited :
             /\ d.exited[i].step = Steps[i]
             /\ Fatal(d.exited[i]) => Len(d.started) = i /\ d.status = 500
             /\ (~Fatal(d.exited[i]) /\ i < Len(Steps)) => Len(d.started) > i
        /\ d.status = 200 =>
             Len(d.exited) = Len(Steps) /\ d.exited[Len(Steps)].code = 0

-----------------------------------------------------------------------------
(* The index document read and saved: the file keeps the text written to   *)
(* it, and both handlers answer with a text.                               *)

\* fs.readFile(p, 'utf8')
readFile(D, p) == D[p].content

\* GET /api/posts/:slug/index with its body: the text of the file
readIndex(D, slug) ==
    LET r == getIndexHandler(D, slug)
    IN IF r.status = 200
         THEN r @@ [content |-> readFile(D, join(resolvePostDir(slug), index_md))]
         ELSE r @@ [content |-> <<>>]

\* PUT /api/posts/:slug/index with its body: the formatted text is written
\* (line 248) and answered (line 249)
saveIndex(D, slug, content) ==
    LET r == putIndexHandler(D, slug, content)
    IN IF r.status = 200
         THEN LET indexPath == join(resolvePostDir(slug), index_md)
                  formatted == format(content)
              IN [r EXCEPT !.disk = [p \in DOMAIN r.disk |->
                                       IF p = indexPath
                                         THEN FILE(Len(formatted)) @@ [content |-> formatted]
                                         ELSE r.disk[p]]]
                 @@ [content |-> formatted]
         ELSE r @@ [content |-> <<>>]

\* posts with and without a document, a post that does not exist; texts that
\* the formatter keeps and changes, and a body that is not a text
IndexRequests ==
    [putIndex |-> PutIndexRequests({foo, foobar, new}, {<<"a">>, <<"a", "\n">>, null}),
     getIndex |-> TreeOfRequests({foo, foobar, new}),
     createFolder |-> CreateFolderRequests({foobar}, {<<>>}, {index_md}),
     remove |-> RemoveRequests({foo}, {index_md})]

\* a request with a text in its response is answered
Answers(request, r) ==
    /\ req = NoReq
    /\ disk' = r.disk
    /\ req' = request
    /\ res' = [status |-> r.status, error |-> r.error]
    /\ out' = [content |-> r.content] @@ NoOut
    /\ UNCHANGED <<pend, walk, log, editor>>

IndexGet ==
    \E r \in IndexRequests.getIndex :
        Answers([op |-> "get-index"] @@ r, readIndex(disk, r.slug))

IndexPut ==
    \E r \in IndexRequests.putIndex :
        /\ now(disk) <= MaxTime
        /\ Answers([op |-> "put-index"] @@ r,
                   stamped(disk, saveIndex(disk, r.slug, r.content)))

IndexWrite ==
    \/ \E r \in IndexRequests.createFolder :
         Writes([op |-> "create-folder"] @@ r,
                createFolderHandler(disk, r.slug, r.parent, r.name))
    \/ \E r \in IndexRequests.remove :
         Writes([op |-> "remove"] @@ r, removeHandler(disk, r.slug, r.target))

\* the response has gone out; the log keeps the last request, its status and
\* the text it was answered with
Kept ==
    /\ req # NoReq
    /\ log' = <<[req |-> req, status |-> res.status,
                 content |-> IF "content" \in DOMAIN out THEN out.content ELSE <<>>]>>
    /\ req' = NoReq
    /\ res' = NoRes
    /\ out' = NoOut
    /\ UNCHANGED <<disk, pend, walk, editor>>

NextIndex ==
    \/ IndexGet
    \/ IndexPut
    \/ IndexWrite
    \/ ListPosts
    \/ Kept

SpecIndex == InitList /\ [][NextIndex]_vars

\* the request answered before this one was a save of slug's index that succeeded
SavedBefore(slug) ==
    /\ log # <<>>
    /\ log[1].req.op = "put-index"
    /\ log[1].req.slug = slug
    /\ log[1].status = 200

\* C23: for an existing post without an index document, reading the index
\* answers 404 and saving it answers 200 and creates the document; the read
\* that follows a save answers 200 with exactly the text the save answered,
\* and the list of posts that follows it reports hasIndex for the post; a
\* save makes no post.
C23_IndexRoundTrip ==
    [][(req = NoReq /\ req' # NoReq) =>
         /\ (/\ req'.op \in {"get-index", "put-index"}
             /\ req'.slug \in Posts(disk)
             /\ IndexDocument(disk, join(POSTS_DIR, req'.slug)) = {}) =>
               IF req'.op = "get-index" THEN res'.status = 404
               ELSE typeofString(req'.content) =>
                      /\ res'.status = 200
                      /\ IndexDocument(disk', join(POSTS_DIR, req'.slug)) # {}
         /\ (req'.op = "get-index" /\ SavedBefore(req'.slug)) =>
               res'.status = 200 /\ out'.content = log[1].content
         /\ (req'.op = "list-posts" /\ log # <<>> /\ log[1].req.op = "put-index"
               /\ log[1].status = 200) =>
               \E i \in DOMAIN out'.posts :
                  out'.posts[i].slug = log[1].req.slug /\ out'.posts[i].hasIndex
         /\ req'.op = "put-index" => Posts(disk') = Posts(disk)]_vars

-----------------------------------------------------------------------------
(* An upload request with any number of file parts.                        *)

\* upload.fields([{ name: 'file', maxCount: 1 }, ...])
maxCount == 1

\* multer reads the parts in the order sent: a part longer than the limit
\* fails the request when it has been read, a part of the field 'file'
\* beyond maxCount fails it when it begins; the handler runs when every part
\* has been read
RECURSIVE multerFields(_, _)
multerFields(files, i) ==
    IF i > Len(files) THEN ""
    ELSE IF i > maxCount THEN "Unexpected field"
    ELSE IF ~multerAccepts(files[i].size) THEN "File too large"
    ELSE multerFields(files, i + 1)

\* POST /api/posts/:slug/files/upload with the file parts of the request
uploadFiles(D, slug, target, files) ==
    IF multerFields(files, 1) # "" THEN Reply(D, 500, multerFields(files, 1))
    ELSE IF Len(files) = 0 THEN Reply(D, 400, "File is required")
    ELSE uploadHandler(D, slug, target, files[1].fileName, files[1].size)

\* the file parts a client sends: none, one, two or three files
Parts ==
    LET part == {[fileName |-> n, size |-> s] :
                    n \in {<<"a">>, <<"b">>, <<"c">>}, s \in {1, MAX_UPLOAD_SIZE + 1}}
    IN {<<>>} \cup {<<p>> : p \in part}
       \cup {<<p, q>> : p \in part, q \in {[fileName |-> <<"b">>, size |-> 1]}}
       \cup {<<[fileName |-> <<"a">>, size |-> 1], [fileName |-> <<"b">>, size |-> 1],
               [fileName |-> <<"c">>, size |-> 1]>>}

PartsRequests ==
    [uploadFiles |-> {[slug |-> s, target |-> t, files |-> f] :
                         s \in {foo, new}, t \in {<<>>, <<"d">>}, f \in Parts},
     remove |-> RemoveRequests({foo, new}, {<<"a">>, <<"b">>, <<"d">>})]

UploadFiles ==
    \E r \in PartsRequests.uploadFiles :
        Respond([op |-> "upload-files"] @@ r, uploadFiles(disk, r.slug, r.target, r.files))

NextParts ==
    \/ UploadFiles
    \/ Remove(PartsRequests)
    \/ Sent

SpecParts == InitPosts /\ [][NextParts]_vars

\* C24: an upload request that carries two or more files, each within the
\* size limit, answers 201 and writes every one of them into the target
\* directory.
C24_UploadMany ==
    [][(/\ req = NoReq
        /\ req'.op = "upload-files"
        /\ Len(req'.files) >= 2
        /\ \A i \in DOMAIN req'.files : req'.files[i].size <= MAX_UPLOAD_SIZE)
       => /\ res'.status = 201
          /\ \A i \in DOMAIN req'.files :
               LET filePath == join(join(join(POSTS_DIR, req'.slug), req'.target),
                                    req'.files[i].fileName)
               IN filePath \in DOMAIN disk' /\ disk'[filePath] = FILE(req'.files[i].size)]_vars

-----------------------------------------------------------------------------
(* SpecView: folders and files, .DS_Store among them, are made, moved and   *)
(* removed in the post foo, and its tree is asked for in between.           *)

dotdotd == <<"d", SEP, ".", ".", SEP, "d">>
dDS_Store == <<"d", SEP, ".", "DS_Store">>

ViewRequests ==
    [upload |-> UploadRequests({foo}, {<<>>, <<"d", SEP, "d">>, dotdotd}, {<<"b">>, DS_Store}, {1}),
     createFolder |-> CreateFolderRequests({foo}, {<<>>, <<"d">>}, {<<"d">>, DS_Store}),
     rename |-> RenameRequests({foo}, {<<"a">>, <<"d">>, <<"d", SEP, "a">>, dDS_Store}),
     remove |-> RemoveRequests({foo}, {<<"b">>, <<"d">>, <<"d", SEP, "d">>}),
     tree |-> TreeOfRequests({foo})]

NextView ==
    \/ Upload(ViewRequests)
    \/ CreateFolder(ViewRequests)
    \/ Rename(ViewRequests)
    \/ Remove(ViewRequests)
    \/ Tree(ViewRequests)
    \/ Sent

SpecView == Init /\ [][NextView]_vars

\* the nodes of a tree, each with the path of the node it is nested under
\* (the empty path for the nodes of the first level)
RECURSIVE NodesUnder(_, _)
NodesUnder(items, parent) ==
    UNION {{[path |-> items[i].path, type |-> items[i].type, parent |-> parent]}
           \cup NodesUnder(items[i].children, items[i].path) : i \in DOMAIN items}

\* how many nodes a tree has
RECURSIVE CountNodes(_, _)
CountNodes(items, i) ==
    IF i = 0 THEN 0
    ELSE 1 + CountNodes(items[i].children, Len(items[i].children)) + CountNodes(items, i - 1)

\* the segments of p below the directory root, put together with slashes
RootRelative(root, p) ==
    LET segs == split(p)
        n == Len(split(root))
    IN IF Len(segs) <= n THEN <<>>
       ELSE LET RECURSIVE slashed(_)
                slashed(i) == IF i = Len(segs) THEN segs[i]
                              ELSE segs[i] \o <<SEP>> \o slashed(i + 1)
            IN slashed(n + 1)

\* the entries below root that are no hidden artifacts and in none
Visible(D, root) ==
    {p \in DOMAIN D : /\ p # root
                      /\ isWithin(p, root)
                      /\ \A i \in DOMAIN split(p) : split(p)[i] # DS_Store}

\* C25: the tree of a post has a node for exactly the entries under the post
\* root that are no .DS_Store, each once, nested under the node of its
\* directory, with the type the disk has and the path from the post root,
\* slash-delimited, with no separator in front and no segment "..".
C25_TreeIsDisk ==
    (req.op = "tree" /\ res.status = 200) =>
        LET root == join(POSTS_DIR, req.slug)
            nodes == NodesUnder(out.tree, <<>>)
        IN /\ nodes = {[path |-> RootRelative(root, p), type |-> disk[p].type,
                        parent |-> RootRelative(root, dirname(p))] : p \in Visible(disk, root)}
           /\ CountNodes(out.tree, Len(out.tree)) = Cardinality(Visible(disk, root))
           /\ \A n \in nodes : /\ n.path[1] # SEP
                               /\ \A i \in DOMAIN split(n.path) : split(n.path)[i] # DOTDOT

\* the tree of foo with a file in a folder two levels down, after a
\* .DS_Store was left in the post
C25_Witness ==
    /\ req.op = "tree"
    /\ res.status = 200
    /\ join(join(POSTS_DIR, foo), DS_Store) \in DOMAIN disk
    /\ \E n \in NodesUnder(out.tree, <<>>) :
         n.type = "file" /\ n.parent = <<"d", SEP, "d">>

-----------------------------------------------------------------------------
(* The post editor page (PostEditorPage) in the browser.  React renders    *)
(* and runs the effects after every event before the next event is         *)
(* handled; a timer callback runs with the values of the render that armed *)
(* the timer.  The server is a choice here: it accepts a save and answers  *)
(* the formatted text, or it rejects it.                                   *)

\* the edits the user makes before stopping, and the save requests that can
\* be in flight together
MaxEdits == 2
MaxInFlight == 2

\* autosaveTimer: no timeout pending
NoTimer == [armed |-> FALSE, content |-> <<>>]

\* indexQuery before it has settled
Loading == [state |-> "loading", text |-> <<>>]

\* the page as it is mounted; deps are the values the autosave effect ran
\* with last, seen is the query result the first effect ran with last
Editor0 ==
    [content |-> <<>>, lastSavedContent |-> <<>>, status |-> "idle",
     hasInitialized |-> FALSE, isPending |-> FALSE, timer |-> NoTimer,
     inflight |-> <<>>, indexQuery |-> Loading, seen |-> Loading,
     deps |-> <<<<>>, FALSE, FALSE>>, edits |-> 0, rendered |-> TRUE]

\* the index documents a post can have when the page opens
Documents == {<<>>, <<"a", "\n">>}

\* saveMutation.mutate(body): onMutate runs, the request goes out, and the
\* mutation observed from now on is this one; at is the number of edits made
\* before it
mutate(e, body) ==
    [e EXCEPT !.inflight = [i \in 1..(Len(@) + 1) |->
                              IF i <= Len(@) THEN [@[i] EXCEPT !.latest = FALSE]
                              ELSE [body |-> body, latest |-> TRUE, at |-> e.edits]],
              !.isPending = TRUE,
              !.status = "saving",
              !.rendered = FALSE]

\* triggerSave, lines 116-127, with the content and saveMutation.isPending of
\* the render it was made in; lastSavedContent is a ref, read when it runs
triggerSave(e, content, isPending) ==
    IF isPending THEN e
    ELSE IF content = e.lastSavedContent THEN e
    ELSE mutate(e, content)

\* lines 66-86: the effect on the result of indexQuery
initialize(e) ==
    IF e.indexQuery = e.seen THEN e
    ELSE IF e.indexQuery.state = "success"
      THEN [e EXCEPT !.content = e.indexQuery.text,
                     !.lastSavedContent = e.indexQuery.text,
                     !.hasInitialized = TRUE,
                     !.status = "idle",
                     !.seen = e.indexQuery]
    ELSE IF e.indexQuery.state = "missing"
      THEN [e EXCEPT !.content = <<>>,
                     !.lastSavedContent = <<>>,
                     !.hasInitialized = TRUE,
                     !.status = "editing",
                     !.seen = e.indexQuery]
    ELSE [e EXCEPT !.seen = e.indexQuery]

\* an autosave effect that arms no timer
autosaveUnarmed(e, r) ==
    LET deps == <<r.content, r.hasInitialized, r.isPending>> IN
    IF deps = r.deps THEN e
    ELSE IF ~r.hasInitialized \/ r.content = e.lastSavedContent \/ r.isPending
      THEN [e EXCEPT !.deps = deps]
    ELSE [e EXCEPT !.deps = deps, !.status = "editing"]

\* lines 140-157: the autosave effect of the render r, run when one of its
\* dependencies has changed; e is the page after the effects before it
autosave(e, r) ==
    LET deps == <<r.content, r.hasInitialized, r.isPending>> IN
    IF deps = r.deps THEN e
    ELSE IF ~r.hasInitialized \/ r.content = e.lastSavedContent \/ r.isPending
      THEN [e EXCEPT !.deps = deps]
    ELSE [e EXCEPT !.deps = deps,
                   !.status = "editing",
                   !.timer = [armed |-> TRUE, content |-> r.content]]

\* lines 102-107: onSuccess with the text the server answered
onSuccess(e, formatted) ==
    [e EXCEPT !.lastSavedContent = formatted,
              !.content = formatted,
              !.status = "saved",
              !.indexQuery = [state |-> "success", text |-> formatted]]

\* lines 109-113: onError
onError(e) == [e EXCEPT !.status = "error"]

\* the request i has been answered: it is in flight no more, and the
\* mutation observed is pending no more if it was this one
settled(e, i) ==
    [e EXCEPT !.inflight = [j \in 1..(Len(@) - 1) |-> IF j < i THEN @[j] ELSE @[j + 1]],
              !.isPending = IF e.inflight[i].latest THEN FALSE ELSE @,
              !.rendered = FALSE]

InitEditor ==
    /\ disk = PostsDisk0
    /\ req = NoReq
    /\ res = NoRes
    /\ pend = [c \in Clients |-> Idle]
    /\ walk = NoWalk
    /\ out = NoOut
    /\ log = <<>>
    /\ editor = Editor0

\* the page changes, the server does not
Page(e) ==
    /\ editor' = e
    /\ UNCHANGED <<disk, req, res, pend, walk, out, log>>

\* fetchPostIndex is answered: with the document, with 404, or with another
\* error (after the retries)
Load ==
    /\ editor.indexQuery = Loading
    /\ \E q \in {[state |-> "success", text |-> d] : d \in Documents}
                \cup {[state |-> "missing", text |-> <<>>], [state |-> "error", text |-> <<>>]} :
         Page([editor EXCEPT !.indexQuery = q, !.rendered = FALSE])

\* React renders and runs the effects; what they set makes the next render
Render ==
    /\ ~editor.rendered
    /\ LET e == autosave(initialize(editor), editor)
       IN Page([e EXCEPT !.rendered =
                  <<e.content, e.status, e.hasInitialized>>
                    = <<editor.content, editor.status, editor.hasInitialized>>])

\* the user types a letter, or deletes the last one
Type ==
    /\ editor.rendered
    /\ editor.hasInitialized
    /\ editor.edits < MaxEdits
    /\ \E text \in {Append(editor.content, "a")}
                   \cup (IF editor.content = <<>> THEN {}
                         ELSE {SubSeq(editor.content, 1, Len(editor.content) - 1)}) :
         Page([editor EXCEPT !.content = text, !.edits = @ + 1, !.rendered = FALSE])

\* the Save button (enabled as line 310 says) or Ctrl/Cmd+S
ManualSave ==
    /\ editor.rendered
    /\ editor.hasInitialized
    /\ Len(editor.inflight) < MaxInFlight
    /\ triggerSave(editor, editor.content, editor.isPending) # editor
    /\ Page(triggerSave(editor, editor.content, editor.isPending))

\* the autosave timer fires: triggerSave of the render that armed it
TimerFires ==
    /\ editor.rendered
    /\ editor.timer.armed
    /\ Len(editor.inflight) < MaxInFlight
    /\ Page(triggerSave([editor EXCEPT !.timer = NoTimer], editor.timer.content, FALSE))

\* the server accepts a save and answers the formatted text
SaveSucceeds ==
    /\ editor.rendered
    /\ \E i \in DOMAIN editor.inflight :
         Page(onSuccess(settled(editor, i), format(editor.inflight[i].body)))

\* the server rejects a save
SaveFails ==
    /\ editor.rendered
    /\ \E i \in DOMAIN editor.inflight : Page(onError(settled(editor, i)))

NextEditor ==
    \/ Load
    \/ Render
    \/ Type
    \/ ManualSave
    \/ TimerFires
    \/ SaveSucceeds
    \/ SaveFails

SpecEditor == InitEditor /\ [][NextEditor]_vars

\* the browser runs what is due: renders, timers that are armed, and the
\* answers to the requests; what the user does is up to the user
SpecEditorFair ==
    /\ SpecEditor
    /\ WF_vars(Load)
    /\ WF_vars(Render)
    /\ WF_vars(TimerFires)
    /\ WF_vars(SaveSucceeds \/ SaveFails)

\* a save has just been accepted
Accepted == Len(editor'.inflight) < Len(editor.inflight) /\ editor'.status = "saved"

C27_OneSaveInFlight ==
    [][Len(editor'.inflight) > Len(editor.inflight) =>
         /\ editor.inflight = <<>>
         /\ editor.content # editor.lastSavedContent]_vars

\* C28: when a save is accepted after the user has changed the text that was
\* sent, the editor keeps the user's text, and it differs from the last
\* saved content, so that it is saved next.
C28_TypedTextKept ==
    [][(/\ Accepted
        /\ Len(editor.inflight) = 1
        /\ editor.edits > editor.inflight[1].at
        /\ editor.content # editor.inflight[1].body)
       => /\ editor'.content = editor.content
          /\ editor'.content # editor'.lastSavedContent]_vars

-----------------------------------------------------------------------------
(* SpecRoot: entries and posts are removed by targets and slugs that name  *)
(* the roots themselves, and made again.                                   *)

aDotDot == <<"a", SEP, ".", ".">>

RootRequests ==
    [remove |-> RemoveRequests({foo, new}, {<<"a">>, DOT, aDotDot}),
     deletePost |-> TreeOfRequests({foo, new, DOT}),
     upload |-> UploadRequests({foo, new}, {<<>>}, {<<"a">>}, {1}),
     createFolder |-> CreateFolderRequests({foo, foobar}, {<<>>}, {<<"d">>})]

NextRoot ==
    \/ Remove(RootRequests)
    \/ DeletePost(RootRequests)
    \/ Upload(RootRequests)
    \/ CreateFolder(RootRequests)
    \/ Sent

SpecRoot == InitPosts /\ [][NextRoot]_vars

\* C29: a remove that succeeds leaves the root of its post where it is, and
\* a delete-post that succeeds leaves the posts root and every other post
\* where they are, whatever target and slug the guard accepts.
C29_RootsKept ==
    [][(req = NoReq /\ req' # NoReq /\ res'.status = 200) =>
         /\ req'.op = "remove" =>
               /\ resolvePostDir(req'.slug) \in DOMAIN disk'
               /\ POSTS_DIR \in DOMAIN disk'
         /\ req'.op = "delete-post" =>
               /\ POSTS_DIR \in DOMAIN disk'
               /\ \A t \in Posts(disk) \ {req'.slug} : t \in Posts(disk')]_vars

-----------------------------------------------------------------------------
(* The pages of the web client: a request goes through apiFetch, and what  *)
(* apiFetch throws goes to the onError of the mutation, which sets the      *)
(* message the page shows.                                                  *)

\* the text each onError falls back to
fallback ==
    [createPost |-> "Unable to create post",
     renamePost |-> "Unable to rename post",
     deletePost |-> "Unable to delete post",
     createFolder |-> "Unable to create folder",
     rename |-> "Unable to rename entry",
     remove |-> "Unable to delete entry",
     upload |-> "Unable to upload file"]

\* lines 448-454 of the server: the body of an error response
errorBody(r) == IF r.error = "" THEN "Internal Server Error" ELSE r.error

\* apiFetch, lines 37-49: what it throws for a response that is not ok, an
\* object { status, message } that is no Error; what fetch throws when no
\* response comes is a TypeError
apiFetch(r) ==
    IF r.status = 0
      THEN [thrown |-> TRUE, instanceofError |-> TRUE, message |-> "Failed to fetch"]
    ELSE IF r.status >= 400
      THEN [thrown |-> TRUE, instanceofError |-> FALSE, message |-> errorBody(r)]
    ELSE [thrown |-> FALSE, instanceofError |-> FALSE, message |-> ""]

\* onError: error instanceof Error ? error.message : text
onErrorShown(error, text) == IF error.instanceofError THEN error.message ELSE text

\* what the page shows after the request: nothing after a success
errorMessage(r, text) ==
    IF apiFetch(r).thrown THEN onErrorShown(apiFetch(r), text) ELSE ""

ClientRequests ==
    [createPost |-> CreatePostRequests({foo, new}, CreateRuns),
     renamePost |-> RenamePostRequests({foo, new}, {foobar, new}),
     deletePost |-> TreeOfRequests({foo, new}),
     createFolder |-> CreateFolderRequests({foo}, {<<>>}, {<<"d">>}),
     rename |-> RenameRequests({foo}, {<<"a">>, <<"d">>}),
     remove |-> RemoveRequests({foo, new}, {<<"a">>}),
     upload |-> UploadRequests({foo}, {<<>>, <<"a">>}, {<<"a">>}, Sizes)]

\* the server answers and the page shows what onError has set
ClientAnswered(request, r, text) ==
    /\ req = NoReq
    /\ Cardinality(DOMAIN r.disk) <= MaxEntries
    /\ disk' = r.disk
    /\ req' = request
    /\ res' = [status |-> r.status, error |-> r.error]
    /\ out' = [errorMessage |-> errorMessage(r, text)] @@ NoOut
    /\ UNCHANGED <<pend, walk, log, editor>>

ClientPosts ==
    \/ \E r \in ClientRequests.createPost :
         ClientAnswered([op |-> "create-post"] @@ r,
                        createPostHandler(disk, r.name, r.run), fallback.createPost)
    \/ \E r \in ClientRequests.renamePost :
         ClientAnswered([op |-> "rename-post"] @@ r,
                        renamePostHandler(disk, r.slug, r.name), fallback.renamePost)
    \/ \E r \in ClientRequests.deletePost :
         ClientAnswered([op |-> "delete-post"] @@ r,
                        deletePostHandler(disk, r.slug), fallback.deletePost)

ClientFiles ==
    \/ \E r \in ClientRequests.createFolder :
         ClientAnswered([op |-> "create-folder"] @@ r,
                        createFolderHandler(disk, r.slug, r.parent, r.name),
                        fallback.createFolder)
    \/ \E r \in ClientRequests.rename :
         ClientAnswered([op |-> "rename"] @@ r,
                        renameHandler(disk, r.slug, r.source, r.target), fallback.rename)
    \/ \E r \in ClientRequests.remove :
         ClientAnswered([op |-> "remove"] @@ r,
                        removeHandler(disk, r.slug, r.target), fallback.remove)
    \/ \E r \in ClientRequests.upload :
         ClientAnswered([op |-> "upload"] @@ r,
                        uploadHandler(disk, r.slug, r.target, r.fileName, r.size),
                        fallback.upload)

\* no response comes: fetch rejects
ClientOffline ==
    \E r \in ClientRequests.deletePost :
        ClientAnswered([op |-> "delete-post"] @@ r, Reply(disk, 0, ""), fallback.deletePost)

NextClient ==
    \/ ClientPosts
    \/ ClientFiles
    \/ ClientOffline
    \/ Sent

SpecClient == InitPosts /\ [][NextClient]_vars

\* C30: when the server rejects a request of the posts page or of the file
\* browser with a status and an error message, the page shows the server's
\* message.
C30_ServerMessageShown ==
    (req # NoReq /\ res.status >= 400 /\ res.error # "") => out.errorMessage = res.error

=============================================================================
